---- MODULE Spec2Model ----
(***************************************************************************)
(* State-machine model of the power-loss recovery engine                   *)
(* (feature/powerloss.cpp, PrintJobRecovery) of the Kobra firmware.        *)
(*                                                                         *)
(* Units: time is counted in ticks of millis(); Z heights are counted in   *)
(* steps of 0.025 mm, so POWER_LOSS_MIN_Z_CHANGE (0.05 mm) is 2 steps.     *)
(* Single-byte markers keep their width (arithmetic modulo 256).           *)
(***************************************************************************)
EXTENDS Integers, Sequences, FiniteSets, TLC

(***************************************************************************)
(* Bounds of the exploration                                               *)
(***************************************************************************)
MaxZ == 3            \* Z positions 0..MaxZ (steps of 0.025 mm)
MaxMs == 3           \* millis() values 0..MaxMs
MaxHead == 2         \* saves are explored while valid_head < MaxHead or >= OldHead
OldHead == 254       \* marker of a record left by an earlier session
MaxDrop == 5         \* ADC readings OUTAGE_ADC_LEVEL - MaxDrop .. OUTAGE_ADC_LEVEL
MaxCnt == 6          \* re-entrant outage() calls are explored while cnt < MaxCnt
MaxCrit == 2         \* executions of the critical section that are explored
MaxSdpos == 2        \* largest file offset in info.sdpos

(***************************************************************************)
(* Program constants and build configuration                               *)
(***************************************************************************)
POWER_LOSS_MIN_Z_CHANGE == 2      \* 0.05 mm
SAVE_INFO_INTERVAL_MS == 2        \* > 0: the interval trigger is compiled in
ERASED_BYTE == 255                \* 0xFF, a byte of erased flash
NaN == -1                         \* a float read from erased flash (all bits set)

OUTAGE_ADC_LEVEL == 2200          \* getVoltsADC() below this is an outage sample
OUTAGE_CNT == 4                   \* cnt at which outage() calls _outage()
POWER_LOSS_ZRAISE == 2            \* mm
Z_MAX_POS == 250                  \* mm
RETRACT_LEN_CONFIG == 10          \* mm, POWER_LOSS_RETRACT_LEN of a build with backup power

SAVE_EACH_CMD_MODE == FALSE

\* millimetres in Z steps
Mm(n) == 40 * n

Max(a, b) == IF a > b THEN a ELSE b
Min(a, b) == IF a < b THEN a ELSE b

\* uint8_t arithmetic
U8(n) == n % 256

\* float comparison and addition with NaN (every comparison with NaN is false)
AddF(a, b) == IF a = NaN \/ b = NaN THEN NaN ELSE a + b
GtF(a, b) == a # NaN /\ b # NaN /\ a > b

(***************************************************************************)
(* job_recovery_info_t: the snapshot record, fields in storage order       *)
(***************************************************************************)
Layout ==
  << "valid_head", "current_position", "feedrate", "zraise",
     "volumetric_enabled", "filament_size", "target_temperature",
     "target_temperature_bed", "fan_speed", "leveling", "fade",
     "sd_filename", "sdpos", "print_job_elapsed", "print_progress",
     "dryrun", "valid_foot" >>

NFields == Len(Layout)

\* memset(&info, 0, sizeof(info))
ZeroInfo ==
  [ valid_head |-> 0, current_position |-> [x |-> 0, y |-> 0, z |-> 0, e |-> 0],
    feedrate |-> 0, zraise |-> 0, volumetric_enabled |-> FALSE,
    filament_size |-> 0, target_temperature |-> 0,
    target_temperature_bed |-> 0, fan_speed |-> 0, leveling |-> FALSE,
    fade |-> 0, sd_filename |-> "", sdpos |-> 0, print_job_elapsed |-> 0,
    print_progress |-> 0, dryrun |-> FALSE, valid_foot |-> 0 ]

\* the record area after FLASH_If_Erase: every byte is 0xFF (the signed 16-bit
\* temperatures read -1; the 32-bit counters 0xFFFFFFFF are written -1 too)
ErasedInfo ==
  [ valid_head |-> ERASED_BYTE,
    current_position |-> [x |-> NaN, y |-> NaN, z |-> NaN, e |-> NaN],
    feedrate |-> 65535, zraise |-> NaN, volumetric_enabled |-> TRUE,
    filament_size |-> NaN, target_temperature |-> 0 - 1,
    target_temperature_bed |-> 0 - 1, fan_speed |-> ERASED_BYTE,
    leveling |-> TRUE, fade |-> NaN, sd_filename |-> "<erased>",
    sdpos |-> 0 - 1, print_job_elapsed |-> 0 - 1,
    print_progress |-> ERASED_BYTE, dryrun |-> TRUE,
    valid_foot |-> ERASED_BYTE ]

\* the machine state of the job that save() copies, apart from the position
\* and the print timer
Job ==
  [ feedrate |-> 1500, volumetric_enabled |-> FALSE, filament_size |-> 0,
    target_temperature |-> 200, target_temperature_bed |-> 60,
    fan_speed |-> 128, leveling |-> TRUE, fade |-> 10,
    print_progress |-> 42, dryrun |-> FALSE, sd_filename |-> "/TEST.GCO" ]

VARIABLES
  info,              \* PrintJobRecovery::info, the in-memory snapshot
  storage,           \* the record at FLASH_OUTAGE_DATA_ADDR
  enabled,           \* PrintJobRecovery::enabled
  next_save_ms,      \* static next_save_ms of save()
  ms,                \* millis()
  current_position,  \* the machine's current position
  sd_printing,       \* IS_SD_PRINTING()
  card_mounted,      \* card.isMounted()
  queue,             \* commands injected into the command queue
  phase,             \* "setup" (booted, check() not run yet), "run", "off"
  torn,              \* observation: the last storage write stopped between head and foot
  op,                \* observation: the last operation and what it did
  lastSave,          \* observation: the previous save() call
  lastAccept         \* observation: millis() of the last accepted save since boot (-1: none)

VARIABLES
  backup_power,      \* the build has BACKUP_POWER_SUPPLY
  cnt,               \* static cnt of outage()
  adc_raw_last,      \* static adc_raw_last of outage()
  lock,              \* static lock of _outage()
  opc,               \* "idle", "lift" (inside retract_and_lift) or "halted"
  olog,              \* the steps the outage critical section has performed
  critRuns,          \* observation: executions of the critical section
  forcedSaves,       \* observation: save(true, zraise) calls made by _outage()
  blocked,           \* observation: an _outage() call returned at the lock
  osamp              \* observation: the samples the outage() calls have seen

VARIABLES
  cmds,              \* the commands and steps resume() has issued, in order
  r_in,              \* observation: info at entry to resume()
  rpc                \* "ready" or "done"

VARIABLES
  rx,                \* TFTSer: the bytes received and not yet read
  wire,              \* the bytes the panel has still to send
  tft_receive_steps, \* static tft_receive_steps of ReadTFTCommand
  length,            \* static length of ReadTFTCommand
  tft_cnt,           \* static cnt of ReadTFTCommand
  data_index,        \* DgusTFT::data_index
  data_received,     \* DgusTFT::data_received
  data_buf,          \* DgusTFT::data_buf[64]
  key_index,         \* DgusTFT::key_index
  key_value,         \* DgusTFT::key_value
  page_index_now,    \* DgusTFT::page_index_now
  page_index_last,   \* DgusTFT::page_index_last
  page_index_last_2, \* DgusTFT::page_index_last_2
  language,          \* lcd_info.language
  printer_state,     \* DgusTFT::printer_state
  pause_state,       \* DgusTFT::pause_state
  targets,           \* heater, fan and feedrate targets set through ExtUI
  tx,                \* the frames written to TFTSer
  frame,             \* observation: the bytes read since the last first sync byte
  rd,                \* observation: the last IdleLoop tick
  stalled,           \* observation: the frame in progress has waited too long
  pop_up_index,      \* the overlay pop_up_manager shows next (100: none)
  probe_cnt,         \* StatusChange()::probe_cnt
  ev,                \* observation: the last call of the engine
  obs                \* observation: counts since the last announcement

plrVars ==
  << info, storage, enabled, next_save_ms, ms, current_position, sd_printing,
     card_mounted, queue, phase, torn, op, lastSave, lastAccept >>

outVars ==
  << backup_power, cnt, adc_raw_last, lock, opc, olog, critRuns, forcedSaves,
     blocked, osamp >>

resVars == << cmds, r_in, rpc >>

tftVars ==
  << rx, wire, tft_receive_steps, length, tft_cnt, data_index, data_received,
     data_buf, key_index, key_value, page_index_now, page_index_last,
     page_index_last_2, language, printer_state, pause_state, targets, tx,
     frame, rd, stalled, pop_up_index, probe_cnt, ev, obs >>

vars == << plrVars, outVars, resVars, tftVars >>

\* what an operation is observed to have done
NoSave == [valid |-> FALSE, force |-> FALSE, ms |-> 0, z |-> 0, wrote |-> FALSE]
NoOp ==
  [ name |-> "none",
    save |-> FALSE,      \* save() was called
    force |-> FALSE,     \* its force argument
    wrote |-> FALSE,     \* write() was called
    changed |-> FALSE,   \* info, storage or next_save_ms changed
    ms |-> 0,            \* millis() at the call
    z |-> 0,             \* current_position.z at the call
    lastz |-> 0,         \* info.current_position.z before the call
    preHead |-> 0,       \* info.valid_head before the call
    lastAcc |-> 0 - 1,   \* lastAccept before the call
    prev |-> NoSave,     \* the save() call just before this one
    loaded |-> FALSE,    \* check(): load() was called
    head |-> 0,          \* check(): the persisted valid_head
    foot |-> 0,          \* check(): the persisted valid_foot
    torn |-> FALSE ]     \* check(): the persisted record was half-written
Op(n) == [NoOp EXCEPT !.name = n]

(***************************************************************************)
(* Collaborators outside powerloss.cpp                                     *)
(***************************************************************************)
\* ELAPSED(now, soon)
ELAPSED(now, soon) == now >= soon

\* job_recovery_info_t::valid(): head and foot equal and non-zero
valid(rec) == rec.valid_head # 0 /\ rec.valid_head = rec.valid_foot

\* persistentStore.FLASH_If_Write: the record is written in place, in address
\* order; k is the number of fields that reached the flash (NFields: all)
FLASH_If_Write(store, rec, k) ==
  [f \in DOMAIN store |->
     IF \E i \in 1..k : Layout[i] = f THEN rec[f] ELSE store[f]]

\* persistentStore.FLASH_If_Erase
FLASH_If_Erase == ErasedInfo

\* print_job_timer.duration()
TimerDuration(now) == now

(***************************************************************************)
(* PrintJobRecovery                                                        *)
(***************************************************************************)
\* purge(): erase the record area unless both in-memory markers read 0xFF
PurgeErases(rec) == rec.valid_head # ERASED_BYTE \/ rec.valid_foot # ERASED_BYTE

purgeStorage(rec, store) == IF PurgeErases(rec) THEN FLASH_If_Erase ELSE store

\* load(): memcpy(&info, FLASH_OUTAGE_DATA_ADDR, sizeof(info))
load(store) == store

\* save(): "if (!++info.valid_head) ++info.valid_head"
MarkerNextNoSkip(h) == U8(h + 1)
MarkerNext(h) == IF U8(h + 1) = 0 THEN U8(U8(h + 1) + 1) ELSE U8(h + 1)

\* save(): the trigger condition
SaveTriggerGeq(force, now, next, z, lastz) ==
  \/ force
  \/ (~SAVE_EACH_CMD_MODE /\ SAVE_INFO_INTERVAL_MS > 0 /\ ELAPSED(now, next))
  \/ (~SAVE_EACH_CMD_MODE /\ ~GtF(AddF(lastz, POWER_LOSS_MIN_Z_CHANGE), z)
        /\ lastz # NaN)
SaveTrigger(force, now, next, z, lastz) ==
  \/ force
  \/ (~SAVE_EACH_CMD_MODE /\ SAVE_INFO_INTERVAL_MS > 0 /\ ELAPSED(now, next))
  \/ (~SAVE_EACH_CMD_MODE /\ GtF(z, AddF(lastz, POWER_LOSS_MIN_Z_CHANGE)))

\* save(): the snapshot taken by the accepted branch
SaveInfo(rec, pos, now, zraise) ==
  [ rec EXCEPT
      !.valid_head = MarkerNext(rec.valid_head),
      !.valid_foot = MarkerNext(rec.valid_head),
      !.current_position = pos,
      !.feedrate = Job.feedrate,
      !.zraise = zraise,
      !.volumetric_enabled = Job.volumetric_enabled,
      !.filament_size = IF Job.volumetric_enabled THEN Job.filament_size ELSE @,
      !.target_temperature = Job.target_temperature,
      !.target_temperature_bed = Job.target_temperature_bed,
      !.fan_speed = Job.fan_speed,
      !.leveling = Job.leveling,
      !.fade = Job.fade,
      !.print_job_elapsed = TimerDuration(now),
      !.print_progress = Job.print_progress,
      !.dryrun = Job.dryrun ]

(***************************************************************************)
(* Operations of the recovery engine.  Each operator below gives the       *)
(* values a handler leaves behind; the actions apply them.                 *)
(***************************************************************************)
\* the storage-order positions at which a write can be cut by the power loss;
\* NFields is a write that completes
WritePoints == {1, 2, NFields - 1, NFields}

\* heads for which further saves are explored
HeadInBounds(h) == h < MaxHead \/ h >= OldHead

\* save(force, zraise) with k fields of write() reaching the flash
saveAccepts(force) ==
  SaveTrigger(force, ms, next_save_ms, current_position.z, info.current_position.z)

saveInfo(force, zraise) ==
  IF saveAccepts(force)
    THEN SaveInfo(info, current_position, ms, zraise)
    ELSE info

\* write(): FLASH_If_Write of the whole record, with no erase before it
write(store, rec, k) == FLASH_If_Write(store, rec, k)

saveStorage(force, zraise, k) ==
  IF saveAccepts(force)
    THEN write(storage, saveInfo(force, zraise), k)
    ELSE storage

saveNextStale(force) == next_save_ms
saveNext(force) ==
  IF saveAccepts(force) THEN ms + SAVE_INFO_INTERVAL_MS ELSE next_save_ms

saveObs(name, force, zraise, k) ==
  [ NoOp EXCEPT
      !.name = name, !.save = TRUE, !.force = force,
      !.wrote = saveAccepts(force),
      !.changed = \/ saveInfo(force, zraise) # info
                  \/ saveStorage(force, zraise, k) # storage
                  \/ saveNext(force) # next_save_ms,
      !.ms = ms, !.z = current_position.z,
      !.lastz = info.current_position.z,
      !.preHead = info.valid_head,
      !.lastAcc = lastAccept,
      !.prev = lastSave ]

\* the effect of one save() call on the engine's variables
saveEffect(name, force, zraise, k) ==
  /\ k \in WritePoints
  /\ saveAccepts(force) => HeadInBounds(info.valid_head)
  /\ ~saveAccepts(force) => k = NFields
  /\ info' = saveInfo(force, zraise)
  /\ storage' = saveStorage(force, zraise, k)
  /\ next_save_ms' = saveNext(force)
  /\ torn' = IF saveAccepts(force) THEN k < NFields ELSE torn
  /\ phase' = IF k < NFields THEN "off" ELSE phase
  /\ op' = saveObs(name, force, zraise, k)
  /\ lastSave' = [valid |-> TRUE, force |-> force, ms |-> ms,
                  z |-> current_position.z, wrote |-> saveAccepts(force)]
  /\ lastAccept' = IF saveAccepts(force) THEN ms ELSE lastAccept

\* save(force): called by the firmware while it runs
save ==
  /\ phase = "run"
  /\ \E force \in BOOLEAN, k \in WritePoints : saveEffect("save", force, 0, k)
  /\ UNCHANGED << enabled, ms, current_position, sd_printing, card_mounted, queue >>
  /\ UNCHANGED << outVars, resVars, tftVars >>

\* init(): clear the in-memory record
init ==
  /\ phase = "run"
  /\ info' = ZeroInfo
  /\ op' = Op("init")
  /\ lastSave' = NoSave
  /\ UNCHANGED << storage, enabled, next_save_ms, ms, current_position,
                  sd_printing, card_mounted, queue, phase, torn, lastAccept >>
  /\ UNCHANGED << outVars, resVars, tftVars >>

\* the effect of purge() on the record and the storage
purgeEffect(rec) ==
  /\ storage' = purgeStorage(rec, storage)
  /\ info' = ZeroInfo
  /\ torn' = IF PurgeErases(rec) THEN FALSE ELSE torn

\* purge()
purge ==
  /\ phase = "run"
  /\ purgeEffect(info)
  /\ op' = Op("purge")
  /\ lastSave' = NoSave
  /\ UNCHANGED << enabled, next_save_ms, ms, current_position, sd_printing,
                  card_mounted, queue, phase, lastAccept >>
  /\ UNCHANGED << outVars, resVars, tftVars >>

\* enable(onoff), then changed(): purge when disabled, save(true) when printing
enable ==
  /\ phase = "run"
  /\ \E onoff \in BOOLEAN :
       /\ enabled' = onoff
       /\ IF ~onoff
            THEN /\ purgeEffect(info)
                 /\ op' = Op("enable")
                 /\ lastSave' = NoSave
                 /\ UNCHANGED << next_save_ms, phase, lastAccept >>
            ELSE IF sd_printing
              THEN \E k \in WritePoints : saveEffect("enable", TRUE, 0, k)
              ELSE /\ op' = Op("enable")
                   /\ lastSave' = NoSave
                   /\ UNCHANGED << info, storage, next_save_ms, phase, torn,
                                   lastAccept >>
  /\ UNCHANGED << ms, current_position, sd_printing, card_mounted, queue >>
  /\ UNCHANGED << outVars, resVars, tftVars >>

\* cancel(): purge() (powerloss.h)
cancel(rec) == purgeEffect(rec)

\* check(): whether the loaded record starts a recovery
CheckAcceptsHeadOnly(rec) == rec.valid_head # 0
CheckAccepts(rec) == valid(rec)

\* check(): queue.inject_P(PSTR("M1000S"))
CheckInjectResume(q) == Append(q, "M1000")
CheckInject(q) == Append(q, "M1000S")

\* check(), called once by setup()
check ==
  /\ phase = "setup"
  /\ phase' = "run"
  /\ IF card_mounted
       THEN IF ~CheckAccepts(load(storage))
              THEN /\ cancel(load(storage))
                   /\ queue' = queue
              ELSE /\ info' = load(storage)
                   /\ queue' = CheckInject(queue)
                   /\ UNCHANGED << storage, torn >>
       ELSE UNCHANGED << info, storage, torn, queue >>
  /\ op' = [Op("check") EXCEPT !.loaded = card_mounted,
                               !.head = storage.valid_head,
                               !.foot = storage.valid_foot,
                               !.torn = torn]
  /\ lastSave' = NoSave
  /\ UNCHANGED << enabled, next_save_ms, ms, current_position, sd_printing,
                  card_mounted, lastAccept >>
  /\ UNCHANGED << outVars, resVars, tftVars >>

\* prepare(): set the fields that do not change during the job; called as the
\* print of a file starts
prepare ==
  /\ phase = "run"
  /\ card_mounted /\ ~sd_printing
  /\ sd_printing' = TRUE
  /\ info' = [info EXCEPT !.sd_filename = Job.sd_filename]
  /\ op' = Op("prepare")
  /\ lastSave' = NoSave
  /\ UNCHANGED << storage, enabled, next_save_ms, ms, current_position,
                  card_mounted, queue, phase, torn, lastAccept >>
  /\ UNCHANGED << outVars, resVars, tftVars >>

(***************************************************************************)
(* Environment of the recovery engine                                      *)
(***************************************************************************)
\* power-up or reset: static data is zero-initialised, the flash is kept
Boot ==
  /\ info' = ZeroInfo
  /\ next_save_ms' = 0
  /\ ms' = 0
  /\ current_position' = [x |-> 0, y |-> 0, z |-> 0, e |-> 0]
  /\ sd_printing' = FALSE
  /\ card_mounted' \in BOOLEAN
  /\ queue' = << >>
  /\ phase' = "setup"
  /\ op' = Op("boot")
  /\ lastSave' = NoSave
  /\ lastAccept' = 0 - 1
  /\ UNCHANGED << storage, enabled, torn >>
  /\ UNCHANGED << outVars, resVars, tftVars >>

\* millis() advances
Tick ==
  /\ phase = "run"
  /\ ms < MaxMs
  /\ ms' = ms + 1
  /\ op' = Op("tick")
  /\ UNCHANGED << info, storage, enabled, next_save_ms, current_position,
                  sd_printing, card_mounted, queue, phase, torn, lastSave,
                  lastAccept >>
  /\ UNCHANGED << outVars, resVars, tftVars >>

\* the nozzle moves in Z
MoveZ ==
  /\ phase = "run"
  /\ \E z \in 0..MaxZ :
       /\ z # current_position.z
       /\ current_position' = [current_position EXCEPT !.z = z]
  /\ op' = Op("move")
  /\ UNCHANGED << info, storage, enabled, next_save_ms, ms, sd_printing,
                  card_mounted, queue, phase, torn, lastSave, lastAccept >>
  /\ UNCHANGED << outVars, resVars, tftVars >>

\* the card is inserted or removed; a removed card ends the print
MediaChange ==
  /\ phase = "run"
  /\ card_mounted' = ~card_mounted
  /\ sd_printing' = (sd_printing /\ card_mounted')
  /\ op' = Op("media")
  /\ UNCHANGED << info, storage, enabled, next_save_ms, ms, current_position,
                  queue, phase, torn, lastSave, lastAccept >>
  /\ UNCHANGED << outVars, resVars, tftVars >>

(***************************************************************************)
(* The power-loss path: outage() is called from idle(), _outage() is the   *)
(* critical section.                                                       *)
(***************************************************************************)
Volts == (OUTAGE_ADC_LEVEL - MaxDrop) .. OUTAGE_ADC_LEVEL

\* POWER_LOSS_RETRACT_LEN: undefined (0) in a build without backup power
POWER_LOSS_RETRACT_LEN == IF backup_power THEN RETRACT_LEN_CONFIG ELSE 0

\* _outage(): the limited Z raise to do now or on resume
ZRaise(z) ==
  IF POWER_LOSS_ZRAISE > 0
    THEN Max(0, Min(z + Mm(POWER_LOSS_ZRAISE), Mm(Z_MAX_POS - 1)) - z)
    ELSE 0

\* what the outage() calls have sampled: the kind of the last call ("high":
\* first reading at or above the level, "low": below it, "entry": it ran the
\* critical section), whether its second reading was lower than the value the
\* call before recorded, cnt before it, the number of low and lower calls
\* since the last high one (dec), the number of them in unbroken succession
\* (streak), and both numbers as they were at the last entry
NoSamples ==
  [ kind |-> "none", lower |-> FALSE, pre |-> 0, dec |-> 0, streak |-> 0,
    entDec |-> 0 - 1, entStreak |-> 0 - 1 ]

\* outage(): "if (getVoltsADC() < adc_raw_last) cnt++"
OutageCountsAlways(v, last) == TRUE
OutageCounts(v, last) == v < last

\* _outage(): "if (lock) return", compiled with BACKUP_POWER_SUPPLY only
OutageLockedNever == FALSE
OutageLocked == backup_power /\ lock

\* retract_and_lift(zraise): its steps; it waits in planner.synchronize(),
\* where idle() runs, when it has anything to do
LiftSteps(zraise) ==
  IF POWER_LOSS_RETRACT_LEN > 0 \/ POWER_LOSS_ZRAISE > 0
    THEN << "relative_mode" >>
         \o (IF POWER_LOSS_RETRACT_LEN > 0 THEN << "retract" >> ELSE << >>)
         \o (IF POWER_LOSS_ZRAISE > 0 /\ zraise # 0 THEN << "raise" >> ELSE << >>)
         \o << "synchronize" >>
    ELSE << >>

\* _outage(): the steps up to the forced save, and those after it
OutageStepsSaveFirst(printing) ==
  (IF printing THEN << "save" >> ELSE << >>)
  \o << "heater_pins_off", "ui_power_loss", "motor_pins_off" >>
OutageStepsToSave(printing) ==
  << "heater_pins_off", "ui_power_loss", "motor_pins_off" >>
  \o (IF printing THEN << "save" >> ELSE << >>)

OutageStepsAfterSave(zraise) ==
  << "disable_all_heaters" >>
  \o (IF backup_power THEN << "quickstop" >> \o LiftSteps(zraise) ELSE << >>)

\* _outage() past its lock: the critical section up to the wait inside
\* retract_and_lift(), or up to kill() when there is no such wait
critical ==
  /\ critRuns < MaxCrit
  /\ critRuns' = critRuns + 1
  /\ lock' = (lock \/ backup_power)
  /\ IF sd_printing
       THEN /\ \E k \in WritePoints :
                 saveEffect("outage", TRUE, ZRaise(current_position.z), k)
            /\ forcedSaves' = forcedSaves + 1
       ELSE /\ op' = Op("outage")
            /\ UNCHANGED << info, storage, next_save_ms, torn, phase, lastSave,
                            lastAccept, forcedSaves >>
  /\ IF phase' = "off"
       THEN /\ olog' = olog \o OutageStepsToSave(sd_printing)
            /\ opc' = "halted"
       ELSE IF backup_power /\ LiftSteps(ZRaise(current_position.z)) # << >>
         THEN /\ olog' = olog \o OutageStepsToSave(sd_printing)
                           \o OutageStepsAfterSave(ZRaise(current_position.z))
              /\ opc' = "lift"
         ELSE /\ olog' = olog \o OutageStepsToSave(sd_printing)
                           \o OutageStepsAfterSave(ZRaise(current_position.z))
                           \o << "kill" >>
              /\ opc' = "halted"
  /\ osamp' = [osamp EXCEPT !.kind = "entry", !.lower = FALSE, !.pre = cnt,
                             !.entDec = osamp.dec, !.entStreak = osamp.streak]
  /\ UNCHANGED << cnt, adc_raw_last, blocked >>

\* outage(): one call, from the main loop's idle() or from the idle() that
\* runs inside retract_and_lift(); v1, v2, v3 are its three ADC readings
outage ==
  /\ phase = "run"
  /\ opc \in {"idle", "lift"}
  /\ \E v1 \in Volts, v2 \in Volts, v3 \in Volts :
       IF ~enabled
         THEN UNCHANGED << plrVars, cnt, adc_raw_last, lock, opc, olog,
                           critRuns, forcedSaves, blocked, osamp >>
         ELSE IF v1 < OUTAGE_ADC_LEVEL
           THEN IF cnt >= OUTAGE_CNT /\ ~OutageLocked
                  THEN critical
                  ELSE /\ cnt < MaxCnt
                       /\ blocked' = (blocked \/ cnt >= OUTAGE_CNT)
                       /\ cnt' = IF OutageCounts(v2, adc_raw_last)
                                   THEN U8(cnt + 1) ELSE cnt
                       /\ adc_raw_last' = v3
                       /\ osamp' =
                            [osamp EXCEPT
                               !.kind = "low", !.lower = (v2 < adc_raw_last),
                               !.pre = cnt,
                               !.dec = IF v2 < adc_raw_last THEN @ + 1 ELSE @,
                               !.streak = IF v2 < adc_raw_last THEN @ + 1 ELSE 0]
                       /\ UNCHANGED << plrVars, lock, opc, olog, critRuns,
                                       forcedSaves >>
           ELSE /\ cnt' = 0
                /\ adc_raw_last' = v3
                /\ osamp' = [osamp EXCEPT !.kind = "high", !.lower = FALSE,
                                          !.pre = cnt, !.dec = 0, !.streak = 0]
                /\ UNCHANGED << plrVars, lock, opc, olog, critRuns,
                                forcedSaves, blocked >>
  /\ UNCHANGED << enabled, ms, current_position, sd_printing, card_mounted,
                  queue, backup_power, resVars, tftVars >>

\* retract_and_lift() returns and _outage() ends in kill(), which halts
liftDone ==
  /\ phase = "run"
  /\ opc = "lift"
  /\ opc' = "halted"
  /\ olog' = Append(olog, "kill")
  /\ UNCHANGED << plrVars, backup_power, cnt, adc_raw_last, lock, critRuns,
                  forcedSaves, blocked, osamp, resVars, tftVars >>

(***************************************************************************)
(* The panel engine (dgus_tft.cpp): frame decoder and request processing   *)
(***************************************************************************)
SYNC1 == 90                       \* 0x5A
SYNC2 == 165                      \* 0xA5
DATA_BUF_SIZE == 64               \* uint8_t data_buf[64]
DATA_INDEX_LIMIT == 63            \* "if (data_index >= 63)"
OP_READ == 131                    \* 0x83
OP_WRITE == 130                   \* 0x82
KEY_ADDRESS == 4096               \* 0x1000
REG_LCD_READY == 20               \* 0x0014
LCD_READY_LAST_GIF == 65650       \* 0x010072
TXT_ADJUST_HOTEND == 8192 + 14 * 48
TXT_ADJUST_BED == 8192 + 15 * 48
TXT_ADJUST_SPEED == 8192 + 16 * 48
TXT_BED_TARGET == 8192 + 18 * 48
TXT_HOTEND_TARGET == 8192 + 20 * 48
TXT_FAN_SPEED_TARGET == 8192 + 22 * 48
TXT_PRINT_SPEED_TARGET == 8192 + 24 * 48
TXT_PREHEAT_HOTEND_INPUT == 12288 \* 0x3000
TXT_PREHEAT_BED_INPUT == 12290    \* 0x3002
PAGE_MAIN == 1
PAGE_FILE == 2
PAGE_STATUS1 == 3
PAGE_STATUS2 == 4
PAGE_ADJUST == 5
PAGE_TOOL == 7
PAGE_SYSTEM_CHS_AUDIO_ON == 11
PAGE_PREPARE == 15
PAGE_PreLEVEL == 16
PAGE_LEVEL_ADVANCE == 17
PAGE_PREHEAT == 18
PAGE_FILAMENT == 19
PAGE_DONE == 20
PAGE_ABNORMAL == 21
PAGE_PRINT_FINISH == 22
PAGE_FILAMENT_LACK == 25
PAGE_STOP_CONF == 27
PAGE_NO_SD == 29
PAGE_WAIT_PAUSE == 32
PAGE_LEVEL_ENSURE == 33
PAGE_LEVELING == 34
PAGE_SYSTEM_CHS_AUDIO_OFF == 117
PAGE_CHS_ABNORMAL_BED_HEATER == 178
PAGE_CHS_ABNORMAL_BED_NTC == 179
PAGE_CHS_ABNORMAL_HOTEND_HEATER == 180
PAGE_CHS_ABNORMAL_HOTEND_NTC == 181
PAGE_CHS_ABNORMAL_X_ENDSTOP == 182
PAGE_CHS_ABNORMAL_Y_ENDSTOP == 183
PAGE_CHS_ABNORMAL_Z_ENDSTOP == 184
PAGE_CHS_ABNORMAL_LEVELING_SENSOR == 187
POP_UP_NONE == 100
NOZZLE_AS_PROBE == FALSE          \* build configuration
TXT_PRINT_NAME == 8192 + 8 * 48
TXT_PRINT_TIME == 8192 + 10 * 48
TXT_PRINT_PROGRESS == 8192 + 11 * 48
TXT_LEVEL_OFFSET == 8192 + 32 * 48
TXT_FINISH_TIME == 8192 + 34 * 48
TXT_PREHEAT_HOTEND == 8192 + 36 * 48
TXT_PREHEAT_BED == 8192 + 37 * 48
TXT_FILAMENT_TEMP == 8192 + 33 * 48
PAGE_OUTAGE_RECOVERY == 171
PAGE_ENG_OUTAGE_RECOVERY == 173
PAGE_CHS_PROBE_PREHEATING == 176
PAGE_ENG_PROBE_PREHEATING == 175
PAGE_CHS_HOMING == 177
PAGE_ENG_HOMING == 189
PAGE_CHS_PROBE_PRECHECK == 201
PAGE_CHS_PROBE_PRECHECK_FAILED == 203
HEATER_0_MAXTEMP == 275           \* build configuration
BED_MAXTEMP == 110                \* build configuration
ADDRESS_SYSTEM_AUDIO == 128       \* 0x0080
ADDRESS_SYSTEM_LED_STATUS == 17664       \* 0x4500
ADDRESS_PRINT_SETTING_LED_STATUS == 17744 \* 0x4550
CASE_LIGHT_ENABLE == FALSE        \* build configuration
ADDRESS_PAGE == 132               \* 0x0084
ADDRESS_MOVE_DISTANCE == 17152    \* 0x4300
TXT_OUTAGE_RECOVERY_FILE == 8576  \* 0x2180
TXT_OUTAGE_RECOVERY_PROGRESS == 8720 \* 0x2210
TXT_MAIN_BED == 8192              \* 0x2000
TXT_MAIN_HOTEND == 8240           \* 0x2030
TXT_PRINT_SPEED == 8192 + 9 * 48
TXT_FAN_SPEED_NOW == 8192 + 21 * 48
TXT_PRINT_SPEED_NOW == 8192 + 23 * 48

Byte == 0..255
Hi(w) == (w \div 256) % 256
Lo(w) == w % 256
\* constrain(v, lo, hi)
constrain(v, lo, hi) == IF v < lo THEN lo ELSE IF v > hi THEN hi ELSE v

\* what an IdleLoop call is observed to have done: whether a byte was
\* available, whether ReadTFTCommand returned true, the bytes it read,
\* whether it read the first sync byte, whether its wait for the second one
\* timed out, the state it was in, whether it hit the buffer limit, whether
\* the frame it reported had stalled, the frames handed to
\* ProcessPanelRequest, the branch that took, the address and key value it
\* derived, and the page, key, printer and pause state before the call
NoRead ==
  [ avail |-> FALSE, ret |-> FALSE, took |-> << >>, sync1 |-> FALSE,
    timeout |-> FALSE, step |-> 0, overflow |-> FALSE, stalled |-> FALSE,
    frames |-> 0, branch |-> "none", addr |-> 0, value |-> 0,
    pre |-> << >>, index |-> 0 - 1 ]

\* nothing called yet, nothing counted
NoEvent ==
  [ op |-> "none", arg |-> << >>, pre |-> << >>, handler |-> "none",
    fun |-> 0 - 1, key |-> 0, pop |-> 100, inj |-> << >>, pages |-> 0,
    cancelled |-> FALSE, points |-> 0, cnt |-> 0, mid |-> << >> ]
NoObs ==
  [ n |-> 0, keys |-> 0, msgs |-> 0, cancelled |-> FALSE, points |-> 0,
    fires |-> 0, shown |-> 0 ]

\* the static data of the panel engine after construction and Startup()
InitTFTIdle ==
  /\ rx = << >>
  /\ wire = << >>
  /\ tft_receive_steps = 0
  /\ length = 0
  /\ tft_cnt = 0
  /\ data_index = 0
  /\ data_received = FALSE
  /\ data_buf = [i \in 0..(DATA_BUF_SIZE - 1) |-> 0]
  /\ key_index = 0
  /\ key_value = 0
  /\ page_index_now = 1
  /\ page_index_last = 1
  /\ page_index_last_2 = 1
  /\ language = "CHS"
  /\ printer_state = "AC_printer_idle"
  /\ pause_state = "AC_paused_idle"
  /\ targets = [hotend |-> 0, bed |-> 0, fan |-> 0, feedrate |-> 100]
  /\ tx = << >>
  /\ frame = << >>
  /\ rd = NoRead
  /\ stalled = FALSE
  /\ pop_up_index = POP_UP_NONE
  /\ probe_cnt = 0
  /\ ev = NoEvent
  /\ obs = NoObs

\* the decoder's static data as one record
Decoder ==
  [ steps |-> tft_receive_steps, length |-> length, cnt |-> tft_cnt,
    data_index |-> data_index, data_received |-> data_received,
    data_buf |-> data_buf ]

\* ReadTFTCommand, state 0, after the second byte was read
SecondSyncAny(d, data) == [d EXCEPT !.steps = 2]

SecondSync(d, data) == IF data = SYNC2 THEN [d EXCEPT !.steps = 2] ELSE d

\* ReadTFTCommand, state 3: the payload is complete
PayloadDone(c, len) == c >= len

\* ReadTFTCommand, state 3: "if (data_index >= 63)"
BufferFullBeyond(d) == d.data_index >= DATA_BUF_SIZE + 1

BufferFull(d) == d.data_index >= DATA_INDEX_LIMIT

\* ReadTFTCommand, state 3, with one byte
ReadPayload(d, data) ==
  IF BufferFull(d)
  THEN [d EXCEPT !.data_index = 0, !.data_received = FALSE]
  ELSE LET c == (d.cnt + 1) % 256
           b == [d.data_buf EXCEPT ![d.data_index] = data]
       IN  IF PayloadDone(c, d.length)
           THEN [d EXCEPT !.data_buf = b, !.steps = 0, !.cnt = 0,
                          !.data_index = 0, !.data_received = TRUE]
           ELSE [d EXCEPT !.data_buf = b, !.cnt = c,
                          !.data_index = d.data_index + 1]

\* ReadTFTCommand, state 0: the first sync byte
IsSync1Any(data) == TRUE

IsSync1(data) == data = SYNC1

\* ReadTFTCommand: d is the decoder, q the bytes available, w the bytes
\* still to come, inTime whether the next of them comes within the 500 ms
\* the call waits for the second sync byte
ReadTFTCommand(d, q, w, inTime) ==
  LET none == [ d |-> d, ret |-> FALSE, q |-> q, w |-> w, took |-> << >>,
                sync1 |-> FALSE, timeout |-> FALSE, overflow |-> FALSE,
                index |-> 0 - 1 ]
  IN
  IF q = << >> \/ d.data_received THEN none
  ELSE
    LET data == Head(q)
        one  == [none EXCEPT !.q = Tail(q), !.took = << data >>]
    IN
    CASE d.steps = 0 ->
           IF ~IsSync1(data)
           THEN [one EXCEPT !.d = [d EXCEPT !.cnt = 0, !.length = 0,
                                            !.data_index = 0,
                                            !.data_received = FALSE]]
           ELSE IF Tail(q) # << >>
           THEN [one EXCEPT !.sync1 = TRUE,
                            !.q = Tail(Tail(q)),
                            !.took = << data, Head(Tail(q)) >>,
                            !.d = SecondSync(d, Head(Tail(q)))]
           ELSE IF w # << >> /\ inTime
           THEN [one EXCEPT !.sync1 = TRUE,
                            !.w = Tail(w),
                            !.took = << data, Head(w) >>,
                            !.d = SecondSync(d, Head(w))]
           ELSE [one EXCEPT !.sync1 = TRUE, !.timeout = TRUE,
                            !.d = [d EXCEPT !.data_index = 0,
                                            !.data_received = FALSE]]
      [] d.steps = 2 ->
           [one EXCEPT !.d = [d EXCEPT !.length = data, !.steps = 3,
                                       !.data_index = 0, !.cnt = 0]]
      [] d.steps = 3 ->
           LET n == ReadPayload(d, data)
           IN  [one EXCEPT !.d = n, !.overflow = BufferFull(d),
                           !.ret = n.data_received,
                           !.index = IF BufferFull(d) THEN 0 - 1
                                     ELSE d.data_index]
      [] OTHER -> one

\* the page ChangePageOfTFT shows for page_index in the given language
PageOf(lang, page_index) ==
  IF lang = "CHS" THEN page_index
  ELSE IF lang = "ENG" THEN
    IF page_index = PAGE_OUTAGE_RECOVERY THEN PAGE_ENG_OUTAGE_RECOVERY
    ELSE IF page_index = PAGE_CHS_PROBE_PREHEATING
    THEN PAGE_ENG_PROBE_PREHEATING
    ELSE IF PAGE_CHS_HOMING <= page_index /\ page_index <= PAGE_ENG_HOMING
    THEN page_index + 12
    ELSE IF PAGE_CHS_PROBE_PRECHECK <= page_index
            /\ page_index <= PAGE_CHS_PROBE_PRECHECK_FAILED
    THEN page_index + 3
    ELSE page_index + 120
  ELSE 0

\* a frame written to the panel: a page change, a value, a text or the
\* audio setting, with its address and its 16-bit value
Out(o, a, v) == [op |-> o, a |-> a, v |-> v]

\* the engine's data that ProcessPanelRequest and the page handlers work on
Panel ==
  [ data_received |-> data_received, data_buf |-> data_buf,
    key_index |-> key_index, key_value |-> key_value,
    now |-> page_index_now, last |-> page_index_last,
    last_2 |-> page_index_last_2, language |-> language,
    printer_state |-> printer_state, pause_state |-> pause_state,
    targets |-> targets, tx |-> << >>, branch |-> "none", addr |-> 0,
    pop_up_index |-> pop_up_index, inj |-> << >> ]

SendValueToTFT(p, value, address) ==
  [p EXCEPT !.tx = Append(@, Out("value", address, value))]

SendTxtToTFT(p, address) ==
  [p EXCEPT !.tx = Append(@, Out("txt", address, 0))]

LcdAudioSet(p) ==
  [p EXCEPT !.tx = Append(@, Out("audio", ADDRESS_SYSTEM_AUDIO, 0))]

ChangePageOfTFT(p, page_index) ==
  LET data_temp == PageOf(p.language, page_index)
  IN  [p EXCEPT !.tx = Append(@, Out("page", ADDRESS_PAGE, data_temp)),
                !.last_2 = p.last, !.last = p.now, !.now = data_temp]

\* FakeChangePageOfTFT: the same page and history, nothing written
FakeChangePageOfTFT(p, page_index) ==
  [ChangePageOfTFT(p, page_index) EXCEPT !.tx = p.tx]

\* the 16-bit value ProcessPanelRequest reads from a frame
ControlValueNoCount(buf) == buf[3] * 256 + buf[4]

ControlValue(buf) == buf[4] * 256 + buf[5]

ControlIndex(buf) == buf[1] * 256 + buf[2]

\* (control_index & 0xF000) == KEY_ADDRESS
IsKey(control_index) ==
  (control_index \div KEY_ADDRESS) * KEY_ADDRESS = KEY_ADDRESS

\* the startup code of the REG_LCD_READY answer
LcdReadyValue(buf) == (buf[3] * 65536 + buf[4] * 256 + buf[5]) % 16777216

ProcessLcdReady(p) ==
  IF LcdReadyValue(p.data_buf) = LCD_READY_LAST_GIF
  THEN LET m == SendValueToTFT(LcdAudioSet(p), 2, ADDRESS_MOVE_DISTANCE)
           a == IF CASE_LIGHT_ENABLE
                THEN SendValueToTFT(
                       SendValueToTFT(m, 0, ADDRESS_SYSTEM_LED_STATUS),
                       0, ADDRESS_PRINT_SETTING_LED_STATUS)
                ELSE m
       IN  IF p.printer_state = "AC_printer_resuming_from_power_outage"
           THEN SendTxtToTFT(
                  SendTxtToTFT(ChangePageOfTFT(a, PAGE_OUTAGE_RECOVERY),
                               TXT_OUTAGE_RECOVERY_FILE),
                  TXT_OUTAGE_RECOVERY_PROGRESS)
           ELSE ChangePageOfTFT(a, PAGE_MAIN)
  ELSE p

ProcessPanelRequest(p0) ==
  IF ~p0.data_received THEN p0
  ELSE
    LET p   == [p0 EXCEPT !.data_received = FALSE]
        buf == p.data_buf
        control_index == ControlIndex(buf)
        v   == ControlValue(buf)
        at(b) == [p EXCEPT !.branch = b, !.addr = control_index]
    IN
    IF buf[0] = OP_READ THEN
      IF IsKey(control_index)
      THEN [at("key") EXCEPT
              !.key_index = control_index,
              !.key_value = (p.key_value \div 65536) * 65536 + v]
      ELSE IF control_index \in {TXT_HOTEND_TARGET, TXT_ADJUST_HOTEND,
                                 TXT_PREHEAT_HOTEND_INPUT}
      THEN [at("hotend") EXCEPT
              !.targets.hotend = constrain(v, 0, HEATER_0_MAXTEMP)]
      ELSE IF control_index \in {TXT_BED_TARGET, TXT_ADJUST_BED,
                                 TXT_PREHEAT_BED_INPUT}
      THEN [at("bed") EXCEPT !.targets.bed = constrain(v, 0, BED_MAXTEMP)]
      ELSE IF control_index = TXT_FAN_SPEED_TARGET
      THEN LET temp == constrain(v, 0, 100)
           IN  [SendValueToTFT(
                  SendValueToTFT(at("fan"), temp, TXT_FAN_SPEED_NOW),
                  temp, TXT_FAN_SPEED_TARGET)
                EXCEPT !.targets.fan = temp]
      ELSE IF control_index \in {TXT_PRINT_SPEED_TARGET, TXT_ADJUST_SPEED}
      THEN LET feedrate == constrain(v, 40, 999)
           IN  [SendValueToTFT(
                  SendValueToTFT(SendTxtToTFT(at("speed"), TXT_PRINT_SPEED),
                                 feedrate, TXT_PRINT_SPEED_NOW),
                  feedrate, TXT_PRINT_SPEED_TARGET)
                EXCEPT !.targets.feedrate = feedrate]
      ELSE IF control_index = REG_LCD_READY
      THEN ProcessLcdReady(at("ready"))
      ELSE at("other")
    ELSE IF buf[0] = OP_WRITE THEN [p EXCEPT !.branch = "write"]
    ELSE [p EXCEPT !.branch = "opcode"]

\* a record fully written by an earlier session
PriorRecord ==
  SaveInfo([ZeroInfo EXCEPT !.valid_head = OldHead - 1,
                            !.sd_filename = Job.sd_filename],
           [x |-> 0, y |-> 0, z |-> 0, e |-> 0], 0, 0)

InitPLR ==
  /\ info = ZeroInfo
  /\ storage \in {ErasedInfo, PriorRecord}
  /\ enabled \in BOOLEAN
  /\ next_save_ms = 0
  /\ ms = 0
  /\ current_position = [x |-> 0, y |-> 0, z |-> 0, e |-> 0]
  /\ sd_printing = FALSE
  /\ card_mounted \in BOOLEAN
  /\ queue = << >>
  /\ phase = "setup"
  /\ torn = FALSE
  /\ op = NoOp
  /\ lastSave = NoSave
  /\ lastAccept = 0 - 1

\* the outage handler and resume() at rest
InitOutageIdle ==
  /\ cnt = 0
  /\ adc_raw_last = 0
  /\ lock = FALSE
  /\ opc = "idle"
  /\ olog = << >>
  /\ critRuns = 0
  /\ forcedSaves = 0
  /\ blocked = FALSE
  /\ osamp = NoSamples

InitResumeIdle ==
  /\ cmds = << >>
  /\ r_in = ZeroInfo
  /\ rpc = "ready"
  /\ InitTFTIdle

Init == InitPLR /\ backup_power = FALSE /\ InitOutageIdle /\ InitResumeIdle

(***************************************************************************)
(* Spec: the life of the persisted record across boots (markers, torn      *)
(* writes, purge); the clock and the nozzle stand still.                   *)
(***************************************************************************)
Next ==
  \/ Boot
  \/ check
  \/ save
  \/ init
  \/ purge
  \/ enable
  \/ prepare
  \/ MediaChange

Spec == Init /\ [][Next]_vars

(***************************************************************************)
(* SpecSave: the trigger policy of save() while the clock advances and the *)
(* nozzle moves.                                                           *)
(***************************************************************************)
NextSave ==
  \/ check
  \/ save
  \/ purge
  \/ Tick
  \/ MoveZ

InitSave == Init

SpecSave == InitSave /\ [][NextSave]_vars

(***************************************************************************)
(* SpecOutage: a print (or an idle machine) whose supply voltage varies.   *)
(***************************************************************************)
OutageZs == {0, 3, Mm(Z_MAX_POS - 2), Mm(Z_MAX_POS - 1), Mm(Z_MAX_POS)}

InitOutage ==
  /\ info = [ZeroInfo EXCEPT !.sd_filename = Job.sd_filename]
  /\ storage = ErasedInfo
  /\ enabled \in BOOLEAN
  /\ next_save_ms = 0
  /\ ms = 0
  /\ \E z \in OutageZs : current_position = [x |-> 0, y |-> 0, z |-> z, e |-> 0]
  /\ sd_printing \in BOOLEAN
  /\ card_mounted = TRUE
  /\ queue = << >>
  /\ phase = "run"
  /\ torn = FALSE
  /\ op = NoOp
  /\ lastSave = NoSave
  /\ lastAccept = 0 - 1
  /\ backup_power \in BOOLEAN
  /\ InitOutageIdle
  /\ InitResumeIdle

NextOutage ==
  \/ outage
  \/ liftDone

SpecOutage == InitOutage /\ [][NextOutage]_vars

(***************************************************************************)
(* resume(): the command sequence that restores the machine and restarts   *)
(* the file.  Every command is handed to gcode.process_subcommands_now,    *)
(* which runs it to completion before the next statement of resume().      *)
(***************************************************************************)
\* the build configuration of the printer (Configuration.h, Conditionals)
HAS_LEVELING == TRUE
HAS_HEATED_BED == TRUE
HAS_HOTEND == TRUE
HAS_FAN == TRUE
NO_VOLUMETRICS == FALSE
BABYSTEPPING == TRUE
IS_CARTESIAN == TRUE
POWER_LOSS_RECOVER_ZHOME == FALSE
NOZZLE_CLEAN_FEATURE == FALSE
Z_HOME_DIR == 0 - 1
POWER_LOSS_PURGE_LEN == 0

\* a G-code line: the code, its parameter letters, their values (a bare
\* letter carries 0) and a string argument; the positions are printed by
\* dtostrf with three decimals, which is exact for multiples of 0.025 mm
Cmd(c, w, v) == [c |-> c, w |-> w, v |-> v, s |-> ""]
CmdS(c, s) == [c |-> c, w |-> << >>, v |-> << >>, s |-> s]
\* a step of resume() that is a direct call, not a G-code line
Call(n) == [c |-> n, w |-> << >>, v |-> << >>, s |-> ""]

\* "M420 S0 Z0": make sure leveling is off before any G92 and G28
resLevelingOffNone == << >>
resLevelingOff ==
  IF HAS_LEVELING THEN << Cmd("M420", << "S", "Z" >>, << 0, 0 >>) >> ELSE << >>

\* restore the bed and hotend targets, no waiting
resTargets(rec) ==
  (IF HAS_HEATED_BED /\ rec.target_temperature_bed # 0
     THEN << Cmd("M140", << "S" >>, << rec.target_temperature_bed >>) >>
     ELSE << >>)
  \o (IF HAS_HOTEND /\ rec.target_temperature # 0
        THEN << Cmd("M104", << "S" >>, << rec.target_temperature >>) >>
        ELSE << >>)

\* wait for the bed, then for the hotend
resWaitsHotendFirst(rec) ==
  (IF HAS_HOTEND /\ rec.target_temperature # 0
     THEN << Cmd("M109", << "S" >>, << rec.target_temperature >>) >>
     ELSE << >>)
  \o (IF HAS_HEATED_BED /\ rec.target_temperature_bed # 0
        THEN << Cmd("M190", << "S" >>, << rec.target_temperature_bed >>) >>
        ELSE << >>)
resWaits(rec) ==
  (IF HAS_HEATED_BED /\ rec.target_temperature_bed # 0
     THEN << Cmd("M190", << "S" >>, << rec.target_temperature_bed >>) >>
     ELSE << >>)
  \o (IF HAS_HOTEND /\ rec.target_temperature # 0
        THEN << Cmd("M109", << "S" >>, << rec.target_temperature >>) >>
        ELSE << >>)

\* the axis letters of the homing command "G28R2" ["XY"]
HomeAxesAll == << >>
HomeAxes ==
  IF IS_CARTESIAN /\ ~POWER_LOSS_RECOVER_ZHOME THEN << "X", "Y" >> ELSE << >>

\* reset E, restore or make the Z raise, home
resHoming(rec) ==
  IF Z_HOME_DIR > 0
    THEN << Cmd("G92.9", << "E" >>, << 0 >>), Cmd("G28", << "R" >>, << 0 >>) >>
    ELSE (IF backup_power
            THEN << Cmd("G92.9", << "E", "Z" >>, << 0, rec.zraise >>) >>
            ELSE << Cmd("G92.9", << "E", "Z" >>, << 0, 0 >>),
                    Cmd("G1", << "Z" >>, << rec.zraise >>) >>)
         \o << Cmd("G28", << "R" >> \o HomeAxes,
                   << 2 >> \o [i \in 1..Len(HomeAxes) |-> 0]) >>

\* pretend all axes are homed; with POWER_LOSS_RECOVER_ZHOME go back up
resHomed(rec) ==
  << Call("set_all_homed") >>
  \o (IF POWER_LOSS_RECOVER_ZHOME
        THEN << Cmd("G1", << "F", "Z" >>,
                    << 500, rec.current_position.z + Mm(POWER_LOSS_ZRAISE) >>) >>
        ELSE << >>)

\* volumetric extrusion (one extruder) and the print cooling fan
resVolumetricFans(rec) ==
  (IF ~NO_VOLUMETRICS /\ rec.volumetric_enabled
     THEN << Cmd("M200", << "D" >>, << rec.filament_size >>) >>
     ELSE << >>)
  \o (IF HAS_FAN /\ rec.fan_speed # 0
        THEN << Cmd("M106", << "P", "S" >>, << 0, rec.fan_speed >>) >>
        ELSE << >>)

\* restore the leveling state before 'G92 Z'
resLevelingRestore(rec) ==
  IF HAS_LEVELING /\ (rec.fade # 0 \/ rec.leveling)
    THEN << Cmd("M420", << "S", "Z" >>,
                << IF rec.leveling THEN 1 ELSE 0, rec.fade >>) >>
    ELSE << >>

\* un-retract, additional purge, nozzle clean
resUnretract ==
  (IF POWER_LOSS_RETRACT_LEN # 0
     THEN << Cmd("G1", << "E", "F" >>, << POWER_LOSS_RETRACT_LEN, 3000 >>) >>
     ELSE << >>)
  \o (IF POWER_LOSS_PURGE_LEN # 0
        THEN << Cmd("G1", << "E", "F" >>,
                    << POWER_LOSS_PURGE_LEN + POWER_LOSS_RETRACT_LEN, 200 >>) >>
        ELSE << >>)
  \o (IF NOZZLE_CLEAN_FEATURE THEN << Cmd("G12", << >>, << >>) >> ELSE << >>)

\* the Z correction by baby steps for the leveling difference
resBabystep(rec) ==
  IF BABYSTEPPING
    THEN << Cmd("G92.9", << "Z" >>, << rec.current_position.z + Mm(2) >>),
            Call("babystep.add_steps"),
            Cmd("M400", << >>, << >>),
            Cmd("G4", << "P" >>, << 1000 >>) >>
    ELSE << >>

\* back to the saved XY, wait for the move, then down to the saved Z
resMoves(rec) ==
  << Cmd("G1", << "X", "Y", "F" >>,
         << rec.current_position.x, rec.current_position.y, 3000 >>),
     Cmd("M400", << >>, << >>),
     Cmd("G1", << "Z", "F" >>, << rec.current_position.z, 200 >>) >>

\* restore the feedrate and the E position
resFeedrateE(rec) ==
  << Cmd("G1", << "F" >>, << rec.feedrate >>),
     Cmd("G92.9", << "E" >>, << rec.current_position.e >>) >>

\* the offset given to M24: resume_sdpos, read at entry, not info.sdpos
ResumeSdposLate(entry, now) == now
ResumeSdpos(entry, now) == entry

\* enable(true), then select the file and start it
resFile(entry, rec) ==
  << Call("enable(true)"),
     CmdS("M23", rec.sd_filename),
     Cmd("M24", << "S", "T" >>,
         << ResumeSdpos(entry, rec.sdpos), rec.print_job_elapsed >>) >>

\* the commands of resume(); entry is info.sdpos at entry, rec the record as
\* the statements read it and late the record after enable(true)
resumeCmds(entry, rec, late) ==
  resLevelingOff \o resTargets(rec) \o resWaits(rec) \o resHoming(rec)
  \o resHomed(rec) \o resVolumetricFans(rec) \o resLevelingRestore(rec)
  \o resUnretract \o resBabystep(rec) \o resMoves(rec) \o resFeedrateE(rec)
  \o resFile(entry, late)

\* the values the stepper ISR may leave in info.sdpos while resume() moves
Sdpos == 0..MaxSdpos

\* resume(), run by M1000 for the record that check() accepted; enable(true)
\* ends in changed(), which saves when a file is printing
resume ==
  /\ phase = "run"
  /\ rpc = "ready"
  /\ valid(info)
  /\ \E isr \in Sdpos :
       LET resume_sdpos == info.sdpos
           rec == [info EXCEPT !.sdpos = isr]
           late == IF sd_printing
                     THEN SaveInfo(rec, current_position, ms, 0)
                     ELSE rec
       IN /\ cmds' = resumeCmds(resume_sdpos, rec, late)
          /\ r_in' = info
          /\ enabled' = TRUE
          /\ info' = late
          /\ IF sd_printing
               THEN /\ HeadInBounds(rec.valid_head)
                    /\ \E k \in WritePoints :
                         /\ storage' = write(storage, late, k)
                         /\ torn' = (k < NFields)
                         /\ phase' = IF k < NFields THEN "off" ELSE phase
                    /\ next_save_ms' = saveNext(TRUE)
                    /\ lastAccept' = ms
               ELSE UNCHANGED << storage, torn, phase, next_save_ms,
                                 lastAccept >>
  /\ rpc' = "done"
  /\ op' = Op("resume")
  /\ lastSave' = NoSave
  /\ UNCHANGED << ms, current_position, sd_printing, card_mounted, queue >>
  /\ UNCHANGED << outVars, tftVars >>

\* the records resume() is run on: a record saved during a print, as the
\* configuration of the job varies
SavedRecords ==
  { [ZeroInfo EXCEPT
       !.valid_head = 1, !.valid_foot = 1,
       !.current_position = [x |-> 100, y |-> 50, z |-> Mm(1), e |-> 7],
       !.feedrate = Job.feedrate, !.zraise = zr,
       !.volumetric_enabled = vol, !.filament_size = 1750,
       !.target_temperature = et, !.target_temperature_bed = bt,
       !.fan_speed = fan, !.leveling = lev, !.fade = fade,
       !.sd_filename = Job.sd_filename, !.sdpos = pos,
       !.print_job_elapsed = 90, !.print_progress = Job.print_progress] :
     zr \in {0, Mm(POWER_LOSS_ZRAISE)}, vol \in BOOLEAN,
     et \in {0, Job.target_temperature}, bt \in {0, Job.target_temperature_bed},
     fan \in {0, Job.fan_speed}, lev \in BOOLEAN, fade \in {0, Job.fade},
     pos \in Sdpos }

\* after a boot whose check() accepted the stored record
InitResume ==
  /\ info \in SavedRecords
  /\ storage = info
  /\ enabled \in BOOLEAN
  /\ next_save_ms = 0
  /\ ms = 0
  /\ current_position = [x |-> 0, y |-> 0, z |-> 0, e |-> 0]
  /\ sd_printing = FALSE
  /\ card_mounted = TRUE
  /\ queue = << "M1000S" >>
  /\ phase = "run"
  /\ torn = FALSE
  /\ op = NoOp
  /\ lastSave = NoSave
  /\ lastAccept = 0 - 1
  /\ backup_power \in BOOLEAN
  /\ InitOutageIdle
  /\ InitResumeIdle

NextResume == resume

SpecResume == InitResume /\ [][NextResume]_vars

(***************************************************************************)
(* The panel engine's tick: DgusTFT::IdleLoop                              *)
(***************************************************************************)
MaxRx == 2

\* what a call reads from the firmware around the engine:
\* isPrintingFromMedia(), whether the file selected in the list is found,
\* lcd_info.audio == ON, isPrinting()
Quiet == [media |-> FALSE, sel |-> FALSE, audio |-> TRUE, printing |-> FALSE]
Envs ==
  [media : BOOLEAN, sel : BOOLEAN, audio : {TRUE}, printing : {FALSE}]

\* the elements of a sequence
Range(s) == { s[i] : i \in 1..Len(s) }

\* injectCommands_P
Inject(p, c) == [p EXCEPT !.inj = Append(@, c)]

page1_handle(p, env) ==
  CASE p.key_value = 1 -> ChangePageOfTFT(p, PAGE_FILE)
    [] p.key_value = 2 -> ChangePageOfTFT(p, PAGE_TOOL)
    [] p.key_value = 3 -> ChangePageOfTFT(p, PAGE_PREPARE)
    [] p.key_value = 4 ->
         IF p.language = "ENG"
         THEN ChangePageOfTFT(p, IF env.audio THEN 11 ELSE 50)
         ELSE ChangePageOfTFT(p, IF env.audio THEN PAGE_SYSTEM_CHS_AUDIO_ON
                                 ELSE PAGE_SYSTEM_CHS_AUDIO_OFF)
    [] OTHER -> p

\* the keys of the file page that do not work on the file list
page2_handle(p, env) ==
  CASE p.key_value = 1 -> ChangePageOfTFT(p, PAGE_MAIN)
    [] p.key_value = 5 ->
         IF ~env.sel THEN p
         ELSE LET n == SendTxtToTFT(p, TXT_PRINT_NAME)
              IN  IF p.printer_state = "AC_printer_resuming_from_power_outage"
                  THEN Inject(ChangePageOfTFT(n, PAGE_STATUS2), "M1000")
                  ELSE n
    [] p.key_value = 6 ->
         IF ~env.sel THEN p
         ELSE LET c == IF p.printer_state
                          = "AC_printer_resuming_from_power_outage"
                       THEN [Inject(p, "M1000 C") EXCEPT
                               !.printer_state = "AC_printer_idle"]
                       ELSE p
                  t == SendTxtToTFT(SendTxtToTFT(SendTxtToTFT(SendTxtToTFT(
                         c, TXT_PRINT_NAME), TXT_PRINT_SPEED),
                         TXT_PRINT_PROGRESS), TXT_PRINT_TIME)
              IN  ChangePageOfTFT(t, PAGE_STATUS2)
    [] OTHER -> p

\* the texts page3_handle and page4_handle send every 1500 ms (the speed
\* and progress texts are sent only when their values changed)
StatusTexts(p, due) ==
  IF due THEN SendTxtToTFT(p, TXT_PRINT_TIME) ELSE p

AdjustValues(p) ==
  IF CASE_LIGHT_ENABLE
  THEN SendValueToTFT(SendValueToTFT(SendValueToTFT(SendValueToTFT(p, 0,
         ADDRESS_PRINT_SETTING_LED_STATUS), p.targets.hotend,
         TXT_ADJUST_HOTEND), p.targets.bed, TXT_ADJUST_BED),
         p.targets.feedrate, TXT_ADJUST_SPEED)
  ELSE p

page3_handle(p, env, due) ==
  CASE p.key_value = 1 ->
         StatusTexts(IF env.media THEN p ELSE ChangePageOfTFT(p, PAGE_FILE),
                     due)
    [] p.key_value = 2 ->
         IF \/ p.pause_state \in {"AC_paused_idle", "AC_paused_filament_lack"}
            \/ p.printer_state = "AC_printer_resuming_from_power_outage"
         THEN ChangePageOfTFT(
                [p EXCEPT !.printer_state = "AC_printer_idle",
                          !.pause_state = "AC_paused_idle"], PAGE_STATUS2)
         ELSE StatusTexts(p, due)
    [] p.key_value = 3 ->
         StatusTexts(IF env.media THEN ChangePageOfTFT(p, PAGE_STOP_CONF)
                     ELSE p, due)
    [] p.key_value = 4 ->
         AdjustValues(ChangePageOfTFT(p, PAGE_ADJUST))
    [] OTHER -> StatusTexts(p, due)

page4_handle(p, env, due) ==
  CASE p.key_value = 1 ->
         StatusTexts(IF env.media THEN p ELSE ChangePageOfTFT(p, PAGE_FILE),
                     due)
    [] p.key_value = 2 ->
         StatusTexts(
           IF env.media
           THEN ChangePageOfTFT(
                  [p EXCEPT !.printer_state = "AC_printer_pausing",
                            !.pause_state = "AC_paused_idle"],
                  PAGE_WAIT_PAUSE)
           ELSE p, due)
    [] p.key_value = 3 ->
         StatusTexts(IF env.media THEN ChangePageOfTFT(p, PAGE_STOP_CONF)
                     ELSE p, due)
    [] p.key_value = 4 ->
         AdjustValues(ChangePageOfTFT(p, PAGE_ADJUST))
    [] OTHER -> StatusTexts(p, due)

page15_handle(p) ==
  CASE p.key_value = 1 -> ChangePageOfTFT(p, PAGE_MAIN)
    [] p.key_value = 2 -> ChangePageOfTFT(p, PAGE_PreLEVEL)
    [] p.key_value = 3 ->
         SendTxtToTFT(SendTxtToTFT(ChangePageOfTFT(p, PAGE_PREHEAT),
                                   TXT_PREHEAT_HOTEND), TXT_PREHEAT_BED)
    [] p.key_value = 4 ->
         ChangePageOfTFT(SendTxtToTFT(p, TXT_FILAMENT_TEMP), PAGE_FILAMENT)
    [] OTHER -> p

page16_handle(p, env) ==
  CASE p.key_value = 1 -> ChangePageOfTFT(p, PAGE_PREPARE)
    [] p.key_value = 2 ->
         IF env.printing THEN p
         ELSE IF NOZZLE_AS_PROBE
         THEN ChangePageOfTFT(p, PAGE_CHS_PROBE_PRECHECK)
         ELSE ChangePageOfTFT(p, PAGE_LEVEL_ENSURE)
    [] p.key_value = 3 ->
         ChangePageOfTFT(SendTxtToTFT(p, TXT_LEVEL_OFFSET),
                         PAGE_LEVEL_ADVANCE)
    [] OTHER -> p

page25_handle(p) ==
  IF p.key_value = 1
  THEN IF p.printer_state = "AC_printer_printing"
       THEN ChangePageOfTFT(p, PAGE_STATUS2)
       ELSE IF p.printer_state = "AC_printer_paused"
       THEN ChangePageOfTFT(p, PAGE_STATUS1)
       ELSE p
  ELSE p

page27_handle(p, env) ==
  CASE p.key_value = 1 ->
         IF env.media
         THEN ChangePageOfTFT(
                [p EXCEPT !.printer_state = "AC_printer_stopping"],
                PAGE_MAIN)
         ELSE [(IF p.printer_state = "AC_printer_resuming_from_power_outage"
                THEN Inject(p, "M1000 C") ELSE p)
               EXCEPT !.printer_state = "AC_printer_idle"]
    [] p.key_value = 2 ->
         IF p.printer_state = "AC_printer_printing"
         THEN ChangePageOfTFT(p, PAGE_STATUS2)
         ELSE IF p.printer_state = "AC_printer_paused"
         THEN ChangePageOfTFT(p, PAGE_STATUS1)
         ELSE p
    [] OTHER -> p

\* page5_handle, keys 1, 4, 5 and 6 (CASE_LIGHT_ENABLE is off)
page5_handle(p) ==
  CASE p.key_value = 1 ->
         IF p.printer_state = "AC_printer_printing"
         THEN ChangePageOfTFT(p, PAGE_STATUS2)
         ELSE IF p.printer_state = "AC_printer_paused"
         THEN ChangePageOfTFT(p, PAGE_STATUS1)
         ELSE p
    [] p.key_value = 5 -> ChangePageOfTFT(p, PAGE_DONE)
    [] OTHER -> p

\* page20_handle, page21_handle, page26_handle and page28_handle
page20_handle(p) ==
  IF p.key_value = 1 THEN ChangePageOfTFT(p, p.last) ELSE p

\* page23_handle and page24_handle
page23_handle(p) ==
  IF p.key_value \in {1, 2} THEN ChangePageOfTFT(p, p.last) ELSE p

page22_handle(p) ==
  IF p.key_value = 1
  THEN [ChangePageOfTFT(p, PAGE_MAIN) EXCEPT !.targets.feedrate = 100]
  ELSE p

page29_handle(p) ==
  IF p.key_value = 1 THEN ChangePageOfTFT(p, PAGE_MAIN) ELSE p

page33_handle(p) ==
  CASE p.key_value = 1 ->
         ChangePageOfTFT(
           [Inject(p, "M851 Z0\nG28\nG29") EXCEPT
              !.printer_state = "AC_printer_probing"], PAGE_LEVELING)
    [] p.key_value = 2 -> ChangePageOfTFT(p, PAGE_PreLEVEL)
    [] OTHER -> p

page34_handle(p, due) ==
  IF due /\ p.pop_up_index = 25
  THEN ChangePageOfTFT([p EXCEPT !.pop_up_index = POP_UP_NONE],
                       PAGE_PreLEVEL)
  ELSE p

\* page171_handle and page173_handle
page171_handle(p) ==
  CASE p.key_value = 1 ->
         LET a == ChangePageOfTFT(p, PAGE_OUTAGE_RECOVERY)
             t == SendTxtToTFT(SendTxtToTFT(SendTxtToTFT(a,
                    TXT_OUTAGE_RECOVERY_FILE), TXT_PRINT_SPEED),
                    TXT_PRINT_PROGRESS)
         IN  Inject(ChangePageOfTFT(t, PAGE_STATUS2), "M1000")
    [] p.key_value = 2 ->
         Inject(ChangePageOfTFT(
                  [p EXCEPT !.printer_state = "AC_printer_idle"], PAGE_MAIN),
                "M1000 C")
    [] OTHER -> p

page199_to_200_handle(p) ==
  IF p.key_value = 1 THEN ChangePageOfTFT(p, PAGE_PreLEVEL) ELSE p

\* the handler IdleLoop picks for a page: its name, and for a handler of
\* fun_array the index used
NoHandler == [name |-> "none", fun |-> 0 - 1]
Named(n) == [name |-> n, fun |-> 0 - 1]
InTableAny(lang, now) ==
  IF lang = "CHS" THEN 0 < now ELSE lang = "ENG" /\ 120 < now

InTable(lang, now) ==
  IF lang = "CHS" THEN 0 < now /\ now < 36
  ELSE lang = "ENG" /\ 120 < now /\ now < 156

HandlerOf(lang, now) ==
  IF now = 115 THEN Named("page115_handle")
  ELSE IF now = 117 THEN Named("page117_handle")
  ELSE IF now = 170 THEN Named("page170_handle")
  ELSE IF now = 171 THEN Named("page171_handle")
  ELSE IF now = 173 THEN Named("page173_handle")
  ELSE IF now = 175 THEN Named("page175_handle")
  ELSE IF now = 176 THEN Named("page176_handle")
  ELSE IF 177 <= now /\ now <= 198 THEN NoHandler
  ELSE IF now = 199 \/ now = 200 THEN Named("page199_to_200_handle")
  ELSE IF now = 201 \/ now = 204 THEN Named("page201_handle")
  ELSE IF now = 202 \/ now = 205 THEN Named("page202_handle")
  ELSE IF now = 203 \/ now = 206 THEN Named("page203_handle")
  ELSE IF InTable(lang, now)
  THEN [name |-> "fun_array",
        fun |-> IF lang = "CHS" THEN now - 1 ELSE now - 1 - 120]
  ELSE NoHandler

\* fun_array has 34 entries
FUN_ARRAY_SIZE == 34

\* the handlers translated here, by index of fun_array
TableModelled ==
  {0, 1, 2, 3, 4, 14, 15, 19, 20, 21, 22, 23, 24, 25, 26, 27, 28, 32, 33}

\* the pages and keys for which PageHandle is the handler's effect
PageHandled(p) ==
  LET h == HandlerOf(p.language, p.now)
  IN  \/ h.name \in {"none", "page171_handle", "page173_handle",
                     "page199_to_200_handle"}
      \/ /\ h.name = "fun_array"
         /\ h.fun \in TableModelled
         /\ h.fun = 1 => p.key_value \notin {2, 3, 4, 7, 8, 9, 10, 11}
         /\ h.fun = 4 => p.key_value \notin {2, 3, 7}

\* the page handler IdleLoop dispatches to.  Pages 177..198 have none (the
\* call is commented out).
PageHandle(p, env, due) ==
  LET h == HandlerOf(p.language, p.now)
  IN  CASE h.name \in {"page171_handle", "page173_handle"} ->
             page171_handle(p)
        [] h.name = "page199_to_200_handle" -> page199_to_200_handle(p)
        [] h.name = "fun_array" /\ h.fun = 0 -> page1_handle(p, env)
        [] h.name = "fun_array" /\ h.fun = 1 -> page2_handle(p, env)
        [] h.name = "fun_array" /\ h.fun = 2 -> page3_handle(p, env, due)
        [] h.name = "fun_array" /\ h.fun = 3 -> page4_handle(p, env, due)
        [] h.name = "fun_array" /\ h.fun = 4 -> page5_handle(p)
        [] h.name = "fun_array" /\ h.fun = 14 -> page15_handle(p)
        [] h.name = "fun_array" /\ h.fun = 15 -> page16_handle(p, env)
        [] h.name = "fun_array" /\ h.fun \in {19, 20, 25, 27} ->
             page20_handle(p)
        [] h.name = "fun_array" /\ h.fun = 21 -> page22_handle(p)
        [] h.name = "fun_array" /\ h.fun \in {22, 23} -> page23_handle(p)
        [] h.name = "fun_array" /\ h.fun = 24 -> page25_handle(p)
        [] h.name = "fun_array" /\ h.fun = 26 -> page27_handle(p, env)
        [] h.name = "fun_array" /\ h.fun = 28 -> page29_handle(p)
        [] h.name = "fun_array" /\ h.fun = 32 -> page33_handle(p)
        [] h.name = "fun_array" /\ h.fun = 33 -> page34_handle(p, due)
        [] OTHER -> p

\* pop_up_manager's test that the overlay's page is not shown yet
NotShown(p, page) == p.now # page

pop_up_manager(p) ==
  LET off(q) == [q EXCEPT !.pop_up_index = POP_UP_NONE]
  IN  CASE p.pop_up_index = 10 ->
             off(IF NotShown(p, PAGE_ABNORMAL)
                 THEN ChangePageOfTFT(p, PAGE_ABNORMAL) ELSE p)
        [] p.pop_up_index \in {15, 23} ->
             off(IF NotShown(p, PAGE_FILAMENT_LACK)
                 THEN ChangePageOfTFT(p, PAGE_FILAMENT_LACK) ELSE p)
        [] p.pop_up_index = 16 -> off(p)
        [] p.pop_up_index = 18 -> off(ChangePageOfTFT(p, PAGE_STATUS1))
        [] p.pop_up_index = 24 ->
             off(ChangePageOfTFT(SendTxtToTFT(p, TXT_FINISH_TIME),
                                 PAGE_PRINT_FINISH))
        [] p.pop_up_index = 25 -> off(ChangePageOfTFT(p, PAGE_PreLEVEL))
        [] OTHER -> p

\* the page-change frames among the frames written
PageChanges(out) == SelectSeq(out, LAMBDA e : e.op = "page")

\* the periodic temperature texts of IdleLoop
Refresh(p, due) ==
  IF due THEN SendTxtToTFT(SendTxtToTFT(p, TXT_MAIN_HOTEND), TXT_MAIN_BED)
  ELSE p

\* ReadTFTCommand will read the first sync byte and wait for the second
WaitsForSync2 ==
  /\ tft_receive_steps = 0
  /\ ~data_received
  /\ Len(rx) = 1
  /\ IsSync1(Head(rx))

\* what the observation keeps of a call: the operation, its argument, the
\* page, key, printer and pause state before it, the handler and the index
\* of fun_array it used, the pop-up index it found, the commands it
\* injected, the page changes it made, and the page fields as the page
\* handler left them to pop_up_manager
Event(o, a) ==
  [ op |-> o, arg |-> a,
    pre |-> << page_index_now, page_index_last, page_index_last_2,
               key_index, key_value, printer_state, pause_state >>,
    handler |-> "none", fun |-> 0 - 1, key |-> 0,
    pop |-> pop_up_index, inj |-> << >>, pages |-> 0,
    cancelled |-> obs.cancelled, points |-> obs.points,
    cnt |-> probe_cnt, mid |-> << >> ]

\* one call of IdleLoop.  inTime: the second sync byte, if still to come,
\* comes within 500 ms.  late: the call finds nothing to read and more
\* than 500 ms have passed since the last byte of the frame in progress.
\* due: the 1500 ms of the periodic texts have passed.
IdleLoop(inTime, late, due, env) ==
  \E r \in { ReadTFTCommand(Decoder, rx, wire, inTime) } :
  \E p0 \in { [Panel EXCEPT !.data_received = r.d.data_received,
                            !.data_buf = r.d.data_buf] } :
  \E p1 \in { IF r.ret THEN ProcessPanelRequest(p0) ELSE p0 } :
  \E p2 \in { PageHandle(Refresh(p1, due), env, due) } :
  \E p3 \in { pop_up_manager(p2) } :
  \E h \in { HandlerOf(p1.language, p1.now) } :
  /\ inTime \/ WaitsForSync2
  /\ late => (rx = << >> /\ tft_receive_steps \in {2, 3})
  /\ PageHandled(Refresh(p1, due))
  /\ rx' = r.q
  /\ wire' = r.w
  /\ tft_receive_steps' = r.d.steps
  /\ length' = r.d.length
  /\ tft_cnt' = r.d.cnt
  /\ data_index' = r.d.data_index
  /\ data_received' = p3.data_received
  /\ data_buf' = p3.data_buf
  /\ key_index' = p3.key_index
  /\ key_value' = 0
  /\ page_index_now' = p3.now
  /\ page_index_last' = p3.last
  /\ page_index_last_2' = p3.last_2
  /\ printer_state' = p3.printer_state
  /\ pause_state' = p3.pause_state
  /\ targets' = p3.targets
  /\ pop_up_index' = p3.pop_up_index
  /\ queue' = queue \o p3.inj
  /\ tx' = p3.tx
  /\ frame' = IF r.took = << >> THEN frame
              ELSE IF tft_receive_steps = 0
              THEN (IF r.sync1 THEN r.took ELSE << >>)
              ELSE frame \o r.took
  /\ stalled' = IF r.took = << >>
                THEN (stalled \/ late)
                ELSE (stalled /\ r.d.steps # 0)
  /\ rd' = [ avail |-> rx # << >>, ret |-> r.ret, took |-> r.took,
             sync1 |-> r.sync1, timeout |-> r.timeout,
             step |-> tft_receive_steps, overflow |-> r.overflow,
             stalled |-> stalled, frames |-> IF r.ret THEN 1 ELSE 0,
             branch |-> p1.branch, addr |-> p1.addr,
             value |-> p1.key_value,
             pre |-> << page_index_now, page_index_last, page_index_last_2,
                        key_index, key_value, printer_state, pause_state >>,
             index |-> r.index ]
  /\ ev' = [Event("IdleLoop", IF h.name = "fun_array" /\ p1.key_value # 0
                               THEN << env.media, env.sel >> ELSE << >>)
            EXCEPT
              !.handler = h.name, !.fun = h.fun, !.key = p1.key_value,
              !.pre = << p1.now, p1.last, p1.last_2, p1.key_index,
                         p1.key_value, p1.printer_state, p1.pause_state >>,
              !.pop = p2.pop_up_index, !.inj = p3.inj,
              !.mid = << p2.now, p2.last, p2.last_2 >>,
              !.pages = Len(PageChanges(p3.tx)) - Len(PageChanges(p1.tx))]
  /\ obs' = [obs EXCEPT
       !.cancelled = @ \/ "M1000 C" \in Range(p3.inj),
       !.points = IF p3.printer_state = "AC_printer_probing"
                     /\ p1.printer_state # "AC_printer_probing"
                  THEN 0 ELSE @,
       !.fires = IF p2.pop_up_index = 15 THEN @ + 1 ELSE @,
       !.shown = @ + (IF p2.pop_up_index = 15
                      THEN Len(PageChanges(p3.tx)) - Len(PageChanges(p2.tx))
                      ELSE 0)]
  /\ UNCHANGED << language, probe_cnt, info, storage, enabled, next_save_ms,
                  ms, current_position, sd_printing, card_mounted, phase,
                  torn, op, lastSave, lastAccept, outVars, resVars >>

\* the panel sends its next byte
Arrive ==
  /\ wire # << >>
  /\ Len(rx) < MaxRx
  /\ rx' = Append(rx, Head(wire))
  /\ wire' = Tail(wire)
  /\ UNCHANGED << tft_receive_steps, length, tft_cnt, data_index,
                  data_received, data_buf, key_index, key_value,
                  page_index_now, page_index_last, page_index_last_2,
                  language, printer_state, pause_state, targets, tx, frame,
                  rd, stalled, pop_up_index, probe_cnt, ev, obs, plrVars,
                  outVars, resVars >>

\* what the panel sends: frames as the DGUS panel forms them (with the word
\* count after the address), a frame laid out without it, a frame of length
\* 0, a frame longer than the buffer, a frame cut short, and noise
Filler(n) == [i \in 1..n |-> 1]
KeyFrame == << 90, 165, 6, 131, 16, 2, 1, 0, 9 >>
KeyFrameHigh == << 90, 165, 6, 131, 31, 0, 1, 1, 3 >>
HotendFrame == << 90, 165, 6, 131, 35, 192, 1, 0, 200 >>
ReadyFrame == << 90, 165, 6, 131, 0, 20, 1, 0, 114 >>
OtherFrame == << 90, 165, 6, 131, 64, 0, 1, 0, 9 >>
ShortFrame == << 90, 165, 5, 131, 16, 2, 0, 5 >>
EmptyFrame == << 90, 165, 0 >>
LongFrame == << 90, 165, DATA_BUF_SIZE + 1 >> \o Filler(DATA_BUF_SIZE + 1)
AckFrame == << 90, 165, 3, 130, 79, 75 >>
CutFrame == << 90, 165, 6, 131 >>
Chunks ==
  { KeyFrame, KeyFrameHigh, HotendFrame, ReadyFrame, OtherFrame, ShortFrame,
    EmptyFrame, LongFrame, AckFrame, CutFrame, << 0 >>, << 90 >>,
    << 90, 0 >> }
Followers == { KeyFrame, ShortFrame }
Streams == Chunks \cup { a \o b : a \in Chunks, b \in Followers }

\* the engine before any byte is read, the panel about to send one of ws
InitDecode(ws) ==
  /\ info = ZeroInfo
  /\ storage = ErasedInfo
  /\ enabled = FALSE
  /\ next_save_ms = 0
  /\ ms = 0
  /\ current_position = [x |-> 0, y |-> 0, z |-> 0, e |-> 0]
  /\ sd_printing = FALSE
  /\ card_mounted = TRUE
  /\ queue = << >>
  /\ phase = "run"
  /\ torn = FALSE
  /\ op = NoOp
  /\ lastSave = NoSave
  /\ lastAccept = 0 - 1
  /\ backup_power = FALSE
  /\ InitOutageIdle
  /\ cmds = << >>
  /\ r_in = ZeroInfo
  /\ rpc = "ready"
  /\ rx = << >>
  /\ wire \in ws
  /\ tft_receive_steps = 0
  /\ length = 0
  /\ tft_cnt = 0
  /\ data_index = 0
  /\ data_received = FALSE
  /\ data_buf = [i \in 0..(DATA_BUF_SIZE - 1) |-> 0]
  /\ key_index = 0
  /\ key_value = 0
  /\ language \in {"CHS", "ENG"}
  /\ printer_state \in {"AC_printer_idle",
                        "AC_printer_resuming_from_power_outage"}
  /\ pause_state = "AC_paused_idle"
  /\ targets = [hotend |-> 0, bed |-> 0, fan |-> 0, feedrate |-> 100]
  /\ tx = << >>
  /\ frame = << >>
  /\ rd = NoRead
  /\ stalled = FALSE
  /\ pop_up_index = POP_UP_NONE
  /\ probe_cnt = 0
  /\ ev = NoEvent
  /\ obs = NoObs

\* the pages t, l and l2 of the language shown one after the other
Shown(t, l, l2) ==
  /\ page_index_now = PageOf(language, t)
  /\ page_index_last = PageOf(language, l)
  /\ page_index_last_2 = PageOf(language, l2)

InitCodec ==
  /\ InitDecode(Streams)
  /\ Shown(PAGE_CHS_HOMING, PAGE_MAIN, PAGE_MAIN)

NextCodec ==
  \/ \E inTime \in BOOLEAN, late \in BOOLEAN, due \in BOOLEAN :
       IdleLoop(inTime, late, due, Quiet)
  \/ Arrive

SpecCodec == InitCodec /\ [][NextCodec]_vars

\* a well-formed frame after bytes the decoder reads in its first state:
\* nothing, a byte that is no sync byte, a first sync byte with another
\* byte, a second sync byte alone, and a stray first sync byte
Leads == { << >>, << 0 >>, << 90, 0 >>, << 165 >>, << 0, 0, 0 >>, << 90 >> }
InitResync ==
  /\ InitDecode({ a \o KeyFrame : a \in Leads })
  /\ Shown(PAGE_CHS_HOMING, PAGE_MAIN, PAGE_MAIN)

\* every byte comes in time
NextResync ==
  \/ \E due \in BOOLEAN : IdleLoop(TRUE, FALSE, due, Quiet)
  \/ Arrive

SpecResync == InitResync /\ [][NextResync]_vars

(***************************************************************************)
(* The frames the engine writes, read back by its own decoder              *)
(***************************************************************************)
\* SendValueToTFT: the bytes written, low byte first
ValueFrameLowFirst(value, address) ==
  << SYNC1, SYNC2, 5, OP_WRITE, Lo(address), Hi(address),
     Lo(value), Hi(value) >>

\* SendValueToTFT: the bytes written
ValueFrame(value, address) ==
  << SYNC1, SYNC2, 5, OP_WRITE, Hi(address), Lo(address),
     Hi(value), Lo(value) >>

\* SendTxtToTFT: the bytes written for a text without a zero byte
TxtFrame(text, address) ==
  << SYNC1, SYNC2, (Len(text) + 5) % 256, OP_WRITE, Hi(address),
     Lo(address) >> \o text \o << 255, 255 >>

\* ChangePageOfTFT: the bytes written, low byte first
PageFrameLowFirst(data_temp) ==
  << SYNC1, SYNC2, 7, OP_WRITE, 0, ADDRESS_PAGE, SYNC1, 1,
     Lo(data_temp), Hi(data_temp) >>

\* ChangePageOfTFT: the bytes written
PageFrame(data_temp) ==
  << SYNC1, SYNC2, 7, OP_WRITE, 0, ADDRESS_PAGE, SYNC1, 1,
     Hi(data_temp), Lo(data_temp) >>

MaxTxt == DATA_INDEX_LIMIT - 5
Letters65(n) == [i \in 1..n |-> 65]
RoundAddresses == {REG_LCD_READY, KEY_ADDRESS + 2, TXT_MAIN_HOTEND,
                   TXT_FAN_SPEED_TARGET}
RoundValues == {0, 9, 200, 23205, 65535}
RoundTexts == {<< >>, << 49, 47, 50 >>, Letters65(MaxTxt),
               Letters65(MaxTxt + 1)}
Encoded ==
  { ValueFrame(v, a) : v \in RoundValues, a \in RoundAddresses }
    \cup { TxtFrame(t, a) : t \in RoundTexts, a \in RoundAddresses }

InitRoundTrip ==
  /\ InitDecode(Encoded)
  /\ Shown(PAGE_CHS_HOMING, PAGE_MAIN, PAGE_MAIN)

\* the bytes of a frame written
Bytes(e) ==
  IF e.op = "page" THEN PageFrame(e.v)
  ELSE IF e.op = "value" THEN ValueFrame(e.v, e.a)
  ELSE << >>

SpecRoundTrip == InitRoundTrip /\ [][NextCodec]_vars

(***************************************************************************)
(* Calls of the engine from the firmware                                   *)
(***************************************************************************)
\* what no call from the firmware changes
Untouched ==
  << rx, wire, tft_receive_steps, length, tft_cnt, data_index,
     data_received, data_buf, key_index, key_value, language, targets,
     frame, rd, stalled, info, storage, enabled, next_save_ms, ms,
     current_position, sd_printing, card_mounted, phase, torn, op, lastSave,
     lastAccept, outVars, resVars >>

\* the engine's data after a call that ends with p, observed as e
Effect(p, e) ==
  /\ page_index_now' = p.now
  /\ page_index_last' = p.last
  /\ page_index_last_2' = p.last_2
  /\ printer_state' = p.printer_state
  /\ pause_state' = p.pause_state
  /\ pop_up_index' = p.pop_up_index
  /\ queue' = queue \o p.inj
  /\ tx' = p.tx
  /\ ev' = [e EXCEPT !.inj = p.inj, !.pages = Len(PageChanges(p.tx))]
  /\ UNCHANGED Untouched

MaxCalls == 2

\* a call of ChangePageOfTFT(t)
ChangePage(t) ==
  /\ obs.n < MaxCalls
  /\ Effect(ChangePageOfTFT(Panel, t), Event("ChangePageOfTFT", t))
  /\ obs' = [obs EXCEPT !.n = @ + 1]
  /\ UNCHANGED probe_cnt

\* a call of FakeChangePageOfTFT(t)
FakeChangePage(t) ==
  /\ obs.n < MaxCalls
  /\ Effect(FakeChangePageOfTFT(Panel, t), Event("FakeChangePageOfTFT", t))
  /\ obs' = [obs EXCEPT !.n = @ + 1]
  /\ UNCHANGED probe_cnt

\* the pages the engine passes to the two operations, and the limits of
\* the bands of the English pages
PageArgs ==
  { PAGE_MAIN, PAGE_FILE, PAGE_FILAMENT_LACK, PAGE_LEVELING, 50, 120,
    PAGE_SYSTEM_CHS_AUDIO_OFF, 170, PAGE_OUTAGE_RECOVERY, 172,
    PAGE_ENG_OUTAGE_RECOVERY, PAGE_ENG_PROBE_PREHEATING,
    PAGE_CHS_PROBE_PREHEATING, PAGE_CHS_HOMING,
    PAGE_CHS_ABNORMAL_BED_HEATER, PAGE_CHS_ABNORMAL_LEVELING_SENSOR, 188,
    PAGE_ENG_HOMING, 190, 200, PAGE_CHS_PROBE_PRECHECK, 202,
    PAGE_CHS_PROBE_PRECHECK_FAILED, 204 }

\* the engine after ParamInit() in either language
InitPage ==
  /\ InitDecode({<< >>})
  /\ Shown(PAGE_MAIN, PAGE_MAIN, PAGE_MAIN)

NextPage ==
  \/ \E t \in PageArgs : ChangePage(t)
  \/ \E t \in PageArgs : FakeChangePage(t)

SpecPage == InitPage /\ [][NextPage]_vars

(***************************************************************************)
(* The panel engine between the firmware's events and the panel's keys     *)
(***************************************************************************)
MaxKeys == 5
MaxMsgs == 5
MaxEvents == 2
MaxKills == 1
GRID_MAX_POINTS_X == 2            \* build configuration
GRID_MAX_POINTS_Y == 1            \* build configuration

\* no frame is on its way: the decoder does not touch what the events
\* change, so an event during a frame is an event before it
Settled ==
  /\ rx = << >>
  /\ wire = << >>
  /\ tft_receive_steps = 0
  /\ ~data_received

\* the frame the panel sends for a key
KeyFrameOf(k) == << 90, 165, 6, 131, 16, 2, 1, 0, k >>

\* a key of the shown page is touched
Press(k) ==
  /\ Settled
  /\ obs.keys < MaxKeys
  /\ rx' = KeyFrameOf(k)
  /\ obs' = [obs EXCEPT !.keys = @ + 1]
  /\ UNCHANGED << wire, tft_receive_steps, length, tft_cnt, data_index,
                  data_received, data_buf, key_index, key_value,
                  page_index_now, page_index_last, page_index_last_2,
                  language, printer_state, pause_state, targets, tx, frame,
                  rd, stalled, pop_up_index, probe_cnt, ev, plrVars,
                  outVars, resVars >>

\* DgusTFT::PowerLossRecovery: a recovery is announced
PowerLossRecovery ==
  /\ Settled
  /\ obs.n < MaxEvents
  /\ Effect([Panel EXCEPT
               !.printer_state = "AC_printer_resuming_from_power_outage"],
            Event("PowerLossRecovery", << >>))
  /\ obs' = [obs EXCEPT !.n = @ + 1, !.cancelled = FALSE]
  /\ UNCHANGED probe_cnt

\* DgusTFT::HomingStart
HomingStart(media) ==
  /\ Settled
  /\ obs.n < MaxEvents
  /\ Effect(IF media THEN Panel ELSE ChangePageOfTFT(Panel, PAGE_CHS_HOMING),
            Event("HomingStart", media))
  /\ obs' = [obs EXCEPT !.n = @ + 1]
  /\ UNCHANGED probe_cnt

\* DgusTFT::HomingComplete: page_index_last as the call leaves it before
\* it changes the page
HomingCompleteLastKept(p) == p

HomingCompleteLastENG(p) ==
  IF p.language = "ENG" /\ p.last > 120 THEN [p EXCEPT !.last = @ - 120]
  ELSE p

HomingComplete(media) ==
  /\ Settled
  /\ obs.n < MaxEvents
  /\ \E p \in { HomingCompleteLastENG(Panel) } :
       Effect(IF media THEN p ELSE ChangePageOfTFT(p, p.last),
              Event("HomingComplete", media))
  /\ obs' = [obs EXCEPT !.n = @ + 1]
  /\ UNCHANGED probe_cnt

\* the messages StatusChange tells apart (their texts are in a header)
Messages ==
  { "probing point", "ready", "probing failed", "probe preheat start",
    "probe preheat stop", "reheating", "media removed", "print paused",
    "print aborted", "other" }

\* the test of the count of probed points
ProbedAll(c) == c = GRID_MAX_POINTS_X * GRID_MAX_POINTS_Y

\* DgusTFT::StatusChange: the engine's data and probe_cnt after the call
StatusChangeProbing(p, c0, msg) ==
  LET c == IF msg = "probing point" THEN (c0 + 1) % 256 ELSE c0
      done == msg = "ready" /\ ProbedAll(c)
      a == IF done
           THEN [FakeChangePageOfTFT(Inject(p, "M500"), PAGE_PreLEVEL)
                   EXCEPT !.printer_state = "AC_printer_idle"]
           ELSE p
      b == IF msg = "probing failed"
           THEN [ChangePageOfTFT(Inject(a, "G1 Z50 F500"),
                                 PAGE_CHS_ABNORMAL_LEVELING_SENSOR)
                   EXCEPT !.printer_state = "AC_printer_idle"]
           ELSE a
      s == IF msg = "probe preheat start"
           THEN ChangePageOfTFT(b, PAGE_CHS_PROBE_PREHEATING) ELSE b
      e == IF msg = "probe preheat stop"
           THEN ChangePageOfTFT(s, PAGE_LEVELING) ELSE s
  IN  [p |-> e, cnt |-> IF done THEN 0 ELSE c]

StatusChangePaused(p, msg) ==
  IF msg = "print paused"
  THEN [(IF p.pause_state # "AC_paused_filament_lack"
         THEN [ChangePageOfTFT(p, PAGE_STATUS1)
                 EXCEPT !.pause_state = "AC_paused_idle"]
         ELSE p) EXCEPT !.printer_state = "AC_printer_paused"]
  ELSE p

StatusChangeOf(p, c0, msg) ==
  CASE p.printer_state = "AC_printer_probing" ->
         StatusChangeProbing(p, c0, msg)
    [] p.printer_state = "AC_printer_printing" ->
         [p |-> IF msg = "reheating" THEN ChangePageOfTFT(p, PAGE_STATUS2)
                ELSE IF msg = "media removed"
                THEN [p EXCEPT !.printer_state =
                        "AC_printer_stopping_from_media_remove"]
                ELSE p,
          cnt |-> c0]
    [] p.printer_state \in {"AC_printer_pausing", "AC_printer_paused"} ->
         [p |-> StatusChangePaused(p, msg), cnt |-> c0]
    [] p.printer_state = "AC_printer_stopping" ->
         [p |-> IF msg = "print aborted"
                THEN [ChangePageOfTFT(p, PAGE_MAIN)
                        EXCEPT !.printer_state = "AC_printer_idle"]
                ELSE p,
          cnt |-> c0]
    [] OTHER -> [p |-> p, cnt |-> c0]

StatusChange(msg) ==
  /\ Settled
  /\ obs.msgs < MaxMsgs
  /\ \E s \in { StatusChangeOf(Panel, probe_cnt, msg) } :
       /\ Effect(s.p, Event("StatusChange", msg))
       /\ probe_cnt' = s.cnt
  /\ obs' = [obs EXCEPT
       !.msgs = @ + 1,
       !.points = IF printer_state = "AC_printer_probing"
                     /\ msg = "probing point" THEN @ + 1 ELSE @]

\* the texts ConfirmationRequest tells apart, by their kind
Confirmations ==
  { "print paused", "nozzle parked", "heater timeout", "reheat done",
    "filament purging", "other" }

\* DgusTFT::ConfirmationRequest: the engine's data after the call
ConfirmationRequestOf(p, msg) ==
  CASE p.printer_state = "AC_printer_pausing" ->
         IF msg \in {"print paused", "nozzle parked"}
         THEN [(IF p.pause_state # "AC_paused_filament_lack"
                THEN ChangePageOfTFT(p, PAGE_STATUS1) ELSE p)
                 EXCEPT !.printer_state = "AC_printer_paused"]
         ELSE p
    [] p.printer_state \in {"AC_printer_resuming_from_power_outage",
                            "AC_printer_printing", "AC_printer_paused"} ->
         IF msg = "heater timeout"
         THEN [p EXCEPT !.pause_state = "AC_paused_heater_timed_out"]
         ELSE IF msg \in {"reheat done", "nozzle parked"}
         THEN [Inject(p, "M108") EXCEPT
                 !.pause_state = IF @ # "AC_paused_filament_lack"
                                 THEN "AC_paused_idle" ELSE @]
         ELSE IF msg = "filament purging"
         THEN [p EXCEPT !.pause_state = "AC_paused_purging_filament"]
         ELSE p
    [] OTHER -> p

ConfirmationRequest(msg) ==
  /\ Settled
  /\ obs.msgs < MaxMsgs
  /\ Effect(ConfirmationRequestOf(Panel, msg),
            Event("ConfirmationRequest", msg))
  /\ obs' = [obs EXCEPT !.msgs = @ + 1]
  /\ UNCHANGED probe_cnt

\* strcmp(s, lit) == 0
Equals(s, lit) == s = lit

\* strncmp(s, lit, strlen(lit)) == 0
StartsWith(s, lit) ==
  Len(s) >= Len(lit) /\ SubSeq(s, 1, Len(lit)) = lit

HeatingFailed ==
  << "H", "e", "a", "t", "i", "n", "g", " ", "F", "a", "i", "l", "e", "d" >>
ErrMintemp ==
  << "E", "r", "r", ":", " ", "M", "I", "N", "T", "E", "M", "P" >>
ErrMaxtemp ==
  << "E", "r", "r", ":", " ", "M", "A", "X", "T", "E", "M", "P" >>
ThermalRunaway ==
  << "T", "H", "E", "R", "M", "A", "L", " ", "R", "U", "N", "A", "W", "A",
     "Y" >>
HomingFailed ==
  << "H", "o", "m", "i", "n", "g", " ", "F", "a", "i", "l", "e", "d" >>
Bed == << "B", "e", "d" >>
E1 == << "E", "1" >>

\* DgusTFT::PrinterKilled: the page it asks for, 0 when it asks for none
KilledPage(error, component) ==
  IF StartsWith(error, HeatingFailed) \/ StartsWith(error, ThermalRunaway)
  THEN IF StartsWith(component, Bed) THEN PAGE_CHS_ABNORMAL_BED_HEATER
       ELSE IF StartsWith(component, E1)
       THEN PAGE_CHS_ABNORMAL_HOTEND_HEATER
       ELSE 0
  ELSE IF StartsWith(error, ErrMintemp) \/ StartsWith(error, ErrMaxtemp)
  THEN IF StartsWith(component, Bed) THEN PAGE_CHS_ABNORMAL_BED_NTC
       ELSE IF StartsWith(component, E1) THEN PAGE_CHS_ABNORMAL_HOTEND_NTC
       ELSE 0
  ELSE IF StartsWith(error, HomingFailed)
  THEN IF StartsWith(component, << "X" >>)
       THEN PAGE_CHS_ABNORMAL_X_ENDSTOP
       ELSE IF StartsWith(component, << "Y" >>)
       THEN PAGE_CHS_ABNORMAL_Y_ENDSTOP
       ELSE IF StartsWith(component, << "Z" >>)
       THEN PAGE_CHS_ABNORMAL_Z_ENDSTOP
       ELSE 0
  ELSE 0

\* the errors and components the firmware reports, and some it does not
Errors ==
  { HeatingFailed, ErrMintemp, ErrMaxtemp, ThermalRunaway, HomingFailed,
    << "E", "r", "r" >>, ErrMintemp \o << "!" >>,
    << "P", "r", "o", "b", "i", "n", "g", " ", "F", "a", "i", "l", "e",
       "d" >> }
Components ==
  { Bed, E1, << "X" >>, << "Y" >>, << "Z" >>, << "E", "2" >>,
    << "E", "1", "0" >>, << "B", "e", "d", "2" >>, << "Z", "2" >>, << >> }

PrinterKilled(error, component) ==
  /\ Settled
  /\ obs.msgs < MaxKills
  /\ \E page \in { KilledPage(error, component) } :
       Effect(IF page = 0 THEN Panel ELSE ChangePageOfTFT(Panel, page),
              Event("PrinterKilled", << error, component >>))
  /\ obs' = [obs EXCEPT !.msgs = @ + 1]
  /\ UNCHANGED probe_cnt

\* the pause of FilamentRunout without the test of isPrintingFromMedia()
RunoutPausesAny(differs, media) == differs

\* FilamentRunout pauses the job
RunoutPauses(differs, media) == differs /\ media

\* DgusTFT::FilamentRunout.  differs: the pin reads other than its
\* baseline; media: isPrintingFromMedia()
FilamentRunout(differs, media) ==
  /\ Settled
  /\ obs.n < MaxEvents
  /\ Effect(IF RunoutPauses(differs, media)
            THEN [Panel EXCEPT !.pop_up_index = 15,
                               !.printer_state = "AC_printer_pausing",
                               !.pause_state = "AC_paused_filament_lack"]
            ELSE [Panel EXCEPT !.pop_up_index = 15],
            Event("FilamentRunout", << differs, media >>))
  /\ obs' = [obs EXCEPT !.n = @ + 1, !.fires = 0, !.shown = 0]
  /\ UNCHANGED probe_cnt

\* DgusTFT::TimerEvent
TimerEvent(event) ==
  /\ Settled
  /\ obs.n < MaxEvents
  /\ Effect(
       IF event = "AC_timer_started"
       THEN [Panel EXCEPT !.printer_state = "AC_printer_printing"]
       ELSE IF event = "AC_timer_stopped"
               /\ printer_state # "AC_printer_idle"
       THEN IF printer_state = "AC_printer_stopping_from_media_remove"
            THEN ChangePageOfTFT(Panel, PAGE_NO_SD)
            ELSE ChangePageOfTFT(
                   SendTxtToTFT([Panel EXCEPT !.printer_state =
                                   "AC_printer_stopping"], TXT_FINISH_TIME),
                   PAGE_PRINT_FINISH)
       ELSE Panel,
       Event("TimerEvent", event))
  /\ obs' = [obs EXCEPT !.n = @ + 1]
  /\ UNCHANGED probe_cnt

\* the engine after ParamInit() in either language, no recovery announced
InitPanel ==
  /\ InitDecode({<< >>})
  /\ Shown(PAGE_MAIN, PAGE_MAIN, PAGE_MAIN)
  /\ printer_state = "AC_printer_idle"

\* the firmware's calls that show a fault or come with homing
NextFault ==
  \/ \E media \in BOOLEAN : HomingStart(media)
  \/ \E media \in BOOLEAN : HomingComplete(media)
  \/ \E error \in Errors, component \in Components :
       PrinterKilled(error, component)

SpecFault == InitPanel /\ [][NextFault]_vars

\* the pages homing can start on: every page ChangePageOfTFT shows for an
\* argument up to the last page of the Chinese pages, and every page it
\* shows when it is given such a page again (as the return keys give it
\* page_index_last)
HomingFrom(lang) ==
  LET once == { PageOf(lang, t) : t \in 1..PAGE_CHS_PROBE_PRECHECK_FAILED }
  IN  once \cup { PageOf(lang, t) : t \in once }

InitHoming ==
  /\ InitDecode({<< >>})
  /\ page_index_now \in HomingFrom(language)
  /\ page_index_last = PageOf(language, PAGE_MAIN)
  /\ page_index_last_2 = PageOf(language, PAGE_MAIN)

NextHoming ==
  \/ \E media \in BOOLEAN : HomingStart(media)
  \/ \E media \in BOOLEAN : HomingComplete(media)

SpecHoming == InitHoming /\ [][NextHoming]_vars

\* the levelling menu, reached from the main page by the keys 3 and 2
InitProbe ==
  /\ InitDecode({<< >>})
  /\ Shown(PAGE_PreLEVEL, PAGE_PREPARE, PAGE_MAIN)
  /\ printer_state = "AC_printer_idle"

ProbeMessages == { "probing point", "ready", "probing failed" }

NextProbe ==
  \/ IdleLoop(TRUE, FALSE, FALSE, Quiet)
  \/ \E k \in 1..2 : Press(k)
  \/ \E msg \in ProbeMessages : StatusChange(msg)

SpecProbe == InitProbe /\ [][NextProbe]_vars

\* the keys that lead from the main page to a print and back
RunoutKeys == {1, 6}

NextRunout ==
  \/ \E env \in Envs : IdleLoop(TRUE, FALSE, FALSE, env)
  \/ \E k \in RunoutKeys : Press(k)
  \/ \E differs \in BOOLEAN, media \in BOOLEAN :
       FilamentRunout(differs, media)
  \/ \E event \in {"AC_timer_started", "AC_timer_paused",
                   "AC_timer_stopped"} : TimerEvent(event)

SpecRunout == InitPanel /\ [][NextRunout]_vars

\* the status texts of a pause
PauseMessages == {"print paused", "reheating", "other"}

\* the firmware's calls around a pause, with no key touched
NextPause ==
  \/ \E differs \in BOOLEAN, media \in BOOLEAN :
       FilamentRunout(differs, media)
  \/ \E event \in {"AC_timer_started", "AC_timer_paused",
                   "AC_timer_stopped"} : TimerEvent(event)
  \/ \E msg \in PauseMessages : StatusChange(msg)
  \/ \E msg \in Confirmations : ConfirmationRequest(msg)

SpecPause == InitPanel /\ [][NextPause]_vars

\* the status page of a print started from the file page (keys 1 and 6),
\* its timer not yet started
InitConfirm ==
  /\ InitDecode({<< >>})
  /\ Shown(PAGE_STATUS2, PAGE_FILE, PAGE_MAIN)
  /\ printer_state = "AC_printer_idle"

\* the keys that lead to the settings page, to its confirmation and back
ConfirmKeys == {1, 4, 5}

NextConfirm ==
  \/ \E env \in Envs : IdleLoop(TRUE, FALSE, FALSE, env)
  \/ \E k \in ConfirmKeys : Press(k)
  \/ \E event \in {"AC_timer_started", "AC_timer_paused",
                   "AC_timer_stopped"} : TimerEvent(event)

SpecConfirm == InitConfirm /\ [][NextConfirm]_vars

\* the status texts at the end of a print
FinishMessages == {"media removed", "print aborted", "other"}

\* the end of a print and the keys of the pages that report it
NextFinish ==
  \/ IdleLoop(TRUE, FALSE, FALSE, Quiet)
  \/ \E k \in 1..2 : Press(k)
  \/ \E event \in {"AC_timer_started", "AC_timer_paused",
                   "AC_timer_stopped"} : TimerEvent(event)
  \/ \E msg \in FinishMessages : StatusChange(msg)

SpecFinish == InitPanel /\ [][NextFinish]_vars

\* the panel reports the end of its start animation (REG_LCD_READY)
LcdReady ==
  /\ Settled
  /\ obs.keys < MaxKeys
  /\ rx' = ReadyFrame
  /\ obs' = [obs EXCEPT !.keys = @ + 1]
  /\ UNCHANGED << wire, tft_receive_steps, length, tft_cnt, data_index,
                  data_received, data_buf, key_index, key_value,
                  page_index_now, page_index_last, page_index_last_2,
                  language, printer_state, pause_state, targets, tx, frame,
                  rd, stalled, pop_up_index, probe_cnt, ev, plrVars,
                  outVars, resVars >>

\* the keys of the outage page, the file page, the status pages and the
\* stop page that resume or cancel a recovery
RecoverKeys == {1, 2, 3, 5, 6}

NextRecover ==
  \/ \E env \in Envs : IdleLoop(TRUE, FALSE, FALSE, env)
  \/ \E k \in RecoverKeys : Press(k)
  \/ LcdReady
  \/ PowerLossRecovery

SpecRecover == InitPanel /\ [][NextRecover]_vars

\* the key that starts the levelling, and a key no page binds
DispatchKeys == {1, 12}

\* the page that asks whether to level is shown: the keys 3, 2 and 2 have
\* led there from the main page
InitDispatch ==
  /\ InitDecode({<< >>})
  /\ Shown(PAGE_LEVEL_ENSURE, PAGE_PreLEVEL, PAGE_PREPARE)
  /\ printer_state = "AC_printer_idle"

\* homing, a filament runout and the panel's ready frame come between the
\* keys; no job prints from media
NextDispatch ==
  \/ IdleLoop(TRUE, FALSE, FALSE, Quiet)
  \/ \E k \in DispatchKeys : Press(k)
  \/ LcdReady
  \/ HomingStart(FALSE)
  \/ \E differs \in BOOLEAN : FilamentRunout(differs, FALSE)

SpecDispatch == InitDispatch /\ [][NextDispatch]_vars

(***************************************************************************)
(* Properties of the persisted record (checked under Spec)                 *)
(***************************************************************************)
Injected(c) == \E i \in 1..Len(queue) : queue[i] = c

\* C1: when the write of an accepted save() was cut after the head marker and
\* before the foot marker reached the flash, the record that check() loads on
\* the next boot has valid_head # valid_foot and no recovery is started.
C1_TornWriteRejected ==
  (op.name = "check" /\ op.loaded /\ op.torn)
    => (op.head # op.foot /\ ~Injected("M1000S"))

\* C2: a persisted record whose valid_head differs from valid_foot is rejected
\* by check() at boot whatever its other fields hold: the in-memory record is
\* clear afterwards, the record area is erased when it was loaded, and no
\* recovery command is injected.
C2_MismatchRejected ==
  (op.name = "check" /\ op.head # op.foot)
    => /\ info = ZeroInfo
       /\ queue = << >>
       /\ op.loaded => storage = ErasedInfo

C2_Witness ==
  /\ op.name = "check" /\ op.loaded
  /\ op.head # op.foot /\ op.head # 0 /\ op.foot # 0

\* C8: after every accepted save() the in-memory markers are equal and
\* non-zero, and valid_head is the previous valid_head advanced by one modulo
\* 256 with 0 skipped (255 is followed by 1), hence differs from it.
C8_MarkersAdvance ==
  (op.save /\ op.wrote)
    => /\ info.valid_head = info.valid_foot
       /\ info.valid_head # 0
       /\ info.valid_head = (IF op.preHead = 255 THEN 1 ELSE op.preHead + 1)
       /\ info.valid_head # op.preHead

C8_Witness == op.save /\ op.wrote /\ op.preHead = 255 /\ info.valid_head = 1

(***************************************************************************)
(* Properties of the save trigger (checked under SpecSave)                 *)
(***************************************************************************)
\* two save(false) calls in immediate succession, no Z change, less than the
\* save interval between them
TwoQuickSaves ==
  /\ op.save /\ ~op.force
  /\ op.prev.valid /\ ~op.prev.force
  /\ op.prev.z = op.z
  /\ op.ms - op.prev.ms < SAVE_INFO_INTERVAL_MS

\* C9 (as stated): the second of two such calls is a no-op.
C9_SecondIsNoOp == TwoQuickSaves => (~op.wrote /\ ~op.changed)

\* C9 (amended): the second of two such calls is a no-op when less than the
\* save interval has elapsed since the last accepted save, and it writes
\* when that interval completes between the two calls.
C9_SecondIsNoOpBeforeDeadline ==
  TwoQuickSaves =>
    IF op.lastAcc >= 0 /\ op.ms - op.lastAcc < SAVE_INFO_INTERVAL_MS
      THEN ~op.wrote /\ ~op.changed
      ELSE op.wrote

C9_Witness == TwoQuickSaves /\ op.prev.wrote /\ op.ms > op.prev.ms /\ ~op.changed

\* C10: save(force, zraise) writes the snapshot if and only if force is set,
\* or the save interval has elapsed since the last accepted save (none yet
\* since boot counts as elapsed), or the current Z exceeds the last-saved Z by
\* more than the minimum Z change.
C10_WritesIffTriggered ==
  op.save =>
    (op.wrote <=>
       \/ op.force
       \/ op.lastAcc < 0
       \/ op.ms - op.lastAcc >= SAVE_INFO_INTERVAL_MS
       \/ GtF(op.z, AddF(op.lastz, POWER_LOSS_MIN_Z_CHANGE)))

C10_Witness ==
  /\ op.save /\ ~op.force /\ op.wrote
  /\ op.lastAcc >= 0 /\ op.ms - op.lastAcc < SAVE_INFO_INTERVAL_MS
  /\ op.z > op.lastz + POWER_LOSS_MIN_Z_CHANGE

(***************************************************************************)
(* Properties of the power-loss path (checked under SpecOutage)            *)
(***************************************************************************)
\* C3: the critical section of the outage handler executes at most once
\* however often outage() is invoked before the halt, re-entrant invocations
\* from idle() included; so at most one forced save advances the markers.
C3_CriticalSectionOnce ==
  /\ critRuns <= 1
  /\ forcedSaves <= 1
  /\ info.valid_head \in {0, MarkerNext(0)}
  /\ info.valid_head = forcedSaves

C3_Witness ==
  /\ opc = "halted" /\ critRuns = 1 /\ forcedSaves = 1 /\ blocked
  /\ info.valid_head = 1

(***************************************************************************)
(* Properties of the resume sequence (checked under SpecResume)            *)
(***************************************************************************)
Resumed == rpc = "done"
CmdIdx == 1..Len(cmds)
Letters(cmd) == {cmd.w[i] : i \in 1..Len(cmd.w)}
Coded(code) == {i \in CmdIdx : cmds[i].c = code}
AllBefore(A, B) == \A i \in A, j \in B : i < j
\* a G28 homes Z when it names Z or names no axis at all
HomesZ(cmd) ==
  cmd.c = "G28" /\ ("Z" \in Letters(cmd) \/ Letters(cmd) \cap {"X", "Y", "Z"} = {})
ExtruderReset(cmd) ==
  cmd.c = "G92.9" /\ "E" \in Letters(cmd) /\ cmd.v[1] = 0 /\ cmd.w[1] = "E"

\* C4: resume() issues no homing command that homes Z: its only G28 comes
\* after the extruder position was reset to zero and names X and Y, not Z.
C4_NeverHomesZ ==
  Resumed =>
    /\ \A i \in CmdIdx : ~HomesZ(cmds[i])
    /\ Cardinality(Coded("G28")) = 1
    /\ \A i \in Coded("G28") :
         /\ Letters(cmds[i]) \cap {"X", "Y", "Z"} = {"X", "Y"}
         /\ \E j \in 1..(i - 1) : ExtruderReset(cmds[j])

C4_Witness ==
  /\ Resumed
  /\ \E i \in CmdIdx : cmds[i] = Cmd("G28", << "R", "X", "Y" >>, << 2, 0, 0 >>)
  /\ r_in.zraise # 0

\* C5: in resume(), "M420 S0 Z0" is issued before every G92.9, G28 and G1 of
\* the sequence.
C5_LevelingOffFirst ==
  Resumed =>
    \E i \in CmdIdx :
      /\ cmds[i] = Cmd("M420", << "S", "Z" >>, << 0, 0 >>)
      /\ AllBefore({i}, Coded("G92.9") \cup Coded("G28") \cup Coded("G1"))

C5_Witness ==
  /\ Resumed
  /\ cmds[1] = Cmd("M420", << "S", "Z" >>, << 0, 0 >>)
  /\ Coded("G92.9") # {} /\ Coded("G28") # {} /\ Coded("G1") # {}
  /\ ~backup_power

\* C6: in resume(), M140 and M104 are issued before any wait (M190, M109),
\* M190 before M109, and both waits before the extruder reset (G92.9 E0) and
\* the homing command (G28).
C6_TargetsThenWaits ==
  Resumed =>
    /\ AllBefore(Coded("M140") \cup Coded("M104"), Coded("M190") \cup Coded("M109"))
    /\ AllBefore(Coded("M190"), Coded("M109"))
    /\ AllBefore(Coded("M190") \cup Coded("M109"),
                 {i \in CmdIdx : ExtruderReset(cmds[i])} \cup Coded("G28"))
    /\ (r_in.target_temperature_bed # 0) =>
         (Coded("M140") # {} /\ Coded("M190") # {})
    /\ (r_in.target_temperature # 0) =>
         (Coded("M104") # {} /\ Coded("M109") # {})

C6_Witness ==
  /\ Resumed
  /\ Coded("M140") # {} /\ Coded("M104") # {}
  /\ Coded("M190") # {} /\ Coded("M109") # {}
  /\ \E i \in CmdIdx : ExtruderReset(cmds[i])

\* the commands C7 speaks of
LevelingRestores ==
  {i \in Coded("M420") : cmds[i].v # << 0, 0 >>}
MicroSteps == Coded("babystep.add_steps")
MovesXY == {i \in Coded("G1") : cmds[i].w = << "X", "Y", "F" >>}
Descents == {i \in Coded("G1") : cmds[i].w = << "Z", "F" >>}
FeedrateRestores == {i \in Coded("G1") : cmds[i].w = << "F" >>}
ExtruderRestores == {i \in Coded("G92.9") : cmds[i].w = << "E" >>}

\* C7: in resume() of a machine that is not printing, the leveling restore
\* precedes the Z micro-step correction; the move to the saved X/Y is issued
\* and completed (M400) before the descent to the saved Z; the descent precedes
\* the feedrate and the extruder position restores; these precede
\* enable(true); and the last two commands select the saved file and start it
\* at the offset read at entry to resume() with the saved elapsed time.
C7_RestoreOrder ==
  Resumed =>
    /\ AllBefore(LevelingRestores, MicroSteps)
    /\ (r_in.leveling \/ r_in.fade # 0) => LevelingRestores # {}
    /\ Cardinality(MicroSteps) = 1
    /\ Cardinality(MovesXY) = 1 /\ Cardinality(Descents) = 1
    /\ \A i \in MovesXY, j \in Descents :
         /\ cmds[i].v = << r_in.current_position.x, r_in.current_position.y, 3000 >>
         /\ cmds[j].v = << r_in.current_position.z, 200 >>
         /\ \E m \in Coded("M400") : i < m /\ m < j
    /\ AllBefore(MicroSteps, MovesXY)
    /\ FeedrateRestores # {} /\ ExtruderRestores # {}
    /\ AllBefore(Descents, FeedrateRestores \cup ExtruderRestores)
    /\ AllBefore(FeedrateRestores, ExtruderRestores)
    /\ Cardinality(Coded("enable(true)")) = 1
    /\ AllBefore(FeedrateRestores \cup ExtruderRestores, Coded("enable(true)"))
    /\ enabled
    /\ Len(cmds) >= 3
    /\ cmds[Len(cmds) - 2] = Call("enable(true)")
    /\ cmds[Len(cmds) - 1] = CmdS("M23", r_in.sd_filename)
    /\ cmds[Len(cmds)] =
         Cmd("M24", << "S", "T" >>, << r_in.sdpos, r_in.print_job_elapsed >>)

C7_Witness ==
  /\ Resumed
  /\ info.sdpos # r_in.sdpos
  /\ LevelingRestores # {} /\ MicroSteps # {}
  /\ cmds[Len(cmds)].c = "M24" /\ cmds[Len(cmds)].v[1] = r_in.sdpos

(***************************************************************************)
(* Properties of check() and of disabling recovery (checked under Spec)    *)
(***************************************************************************)
ChecksValidRecord ==
  op.name = "check" /\ op.head = op.foot /\ op.head # 0

C12_DisableErases ==
  (op.name = "enable" /\ ~enabled) =>
    (info = ZeroInfo /\ storage = ErasedInfo)

(***************************************************************************)
(* Properties of the outage detection (checked under SpecOutage)           *)
(***************************************************************************)
\* C13 as stated: the critical section is entered only after at least 4
\* consecutive samples each below the threshold and each lower than the one
\* before; a sample at or above the threshold, or a below-threshold sample
\* that is not lower than its predecessor, restarts the count.
C13_ConsecutiveDecreasing ==
  /\ critRuns > 0 => osamp.entStreak >= OUTAGE_CNT
  /\ osamp.kind = "high" => cnt = 0
  /\ (osamp.kind = "low" /\ ~osamp.lower) => cnt = 0

\* C13: the critical section is entered only by a call whose reading is below
\* the threshold, after at least 4 calls since the last reading at or above
\* the threshold that each read below it and lower than the value recorded
\* by the call before; a reading at or above the threshold restarts the
\* count; a below-threshold reading that is not lower than its predecessor
\* leaves the count as it was; a single low sample never triggers it.
C13_DebouncedEntry ==
  /\ critRuns > 0 => (osamp.entDec >= OUTAGE_CNT /\ OUTAGE_CNT > 1)
  /\ osamp.kind = "high" => cnt = 0
  /\ (osamp.kind = "low" /\ ~osamp.lower) => cnt = osamp.pre
  /\ (osamp.kind = "low" /\ osamp.lower) => cnt = U8(osamp.pre + 1)
  /\ osamp.kind = "entry" => (osamp.pre >= OUTAGE_CNT /\ critRuns > 0)

C13_Witness ==
  /\ osamp.kind = "entry"
  /\ osamp.entDec = OUTAGE_CNT
  /\ osamp.entStreak < OUTAGE_CNT
  /\ critRuns = 1

\* the steps of a critical section that ran to the halt
OutageRan == opc = "halted" /\ phase = "run" /\ critRuns = 1
StepAt(s) == {i \in 1..Len(olog) : olog[i] = s}
StepsInOrder(a, b) == \A i \in StepAt(a), j \in StepAt(b) : i < j
OutageOrder ==
  /\ SubSeq(olog, 1, 3) = << "heater_pins_off", "ui_power_loss", "motor_pins_off" >>
  /\ StepsInOrder("motor_pins_off", "save")
  /\ StepsInOrder("save", "disable_all_heaters")
  /\ Cardinality(StepAt("disable_all_heaters")) = 1
  /\ StepsInOrder("motor_pins_off", "disable_all_heaters")
  /\ StepsInOrder("disable_all_heaters", "retract")
  /\ StepsInOrder("disable_all_heaters", "raise")
  /\ StepsInOrder("retract", "raise")
  /\ olog[Len(olog)] = "kill" /\ Cardinality(StepAt("kill")) = 1
  /\ backup_power => Cardinality(StepAt("retract")) = 1
  /\ ~backup_power => (StepAt("retract") = {} /\ StepAt("raise") = {})

Reported == rd.ret /\ rd.frames = 1
\* the length byte of the frame in progress
FrameLength == frame[3]
\* the frame in progress announces more payload than the buffer holds
Oversized == Len(frame) >= 3 /\ FrameLength > DATA_BUF_SIZE

\* C15 as stated: ReadTFTCommand reports a frame only after it has read, in
\* order, 5A A5, a length byte L and exactly L payload bytes, for every L
\* including 0, and the receive buffer then holds those L bytes in order.
C15_FrameAfterExactPayload ==
  Reported =>
    /\ Len(frame) >= 3
    /\ frame[1] = SYNC1 /\ frame[2] = SYNC2
    /\ Len(frame) = 3 + FrameLength
    /\ \A i \in 0..(FrameLength - 1) : data_buf[i] = frame[4 + i]

\* C16 as stated: when a payload would exceed the receive buffer, the
\* decoder is back in its first state and no frame is reported for the
\* oversized input.
C16_OverflowResets ==
  /\ rd.overflow => (tft_receive_steps = 0 /\ ~rd.ret)
  /\ ~(Reported /\ Oversized)

\* C17 as stated: when a frame in progress has waited in the length or
\* payload state longer than the timeout, the decoder is reset, and no
\* frame that stalled is ever reported.
C17_StalledFrameDropped ==
  /\ stalled => tft_receive_steps = 0
  /\ Reported => ~rd.stalled

\* the page, key, printer and pause state
PanelState ==
  << page_index_now, page_index_last, page_index_last_2, key_index,
     key_value, printer_state, pause_state >>
\* the call read the first sync byte and then either waited in vain for the
\* second or read a byte that is not the second sync byte
BadSync == rd.sync1 /\ (rd.timeout \/ rd.took[2] # 165)

\* C18: after the first sync byte, if the second does not come within
\* 500 ms or the next byte is not 0xA5, the decoder is in its first state,
\* no frame is reported and the page, key, printer and pause state are as
\* they were before the call.
C18_BadSyncDropped ==
  BadSync =>
    /\ tft_receive_steps = 0
    /\ ~rd.ret /\ rd.frames = 0 /\ ~data_received
    /\ PanelState = rd.pre

C18_Witness ==
  /\ rd.sync1 /\ rd.timeout /\ rd.took = << 90 >>
  /\ wire # << >> /\ tft_receive_steps = 0

\* C19 as stated: a call of ReadTFTCommand removes at most one byte and
\* returns false when none is available; a call of IdleLoop hands at most
\* one frame to ProcessPanelRequest.
C19_OneBytePerCall ==
  /\ Len(rd.took) <= 1
  /\ ~rd.avail => (rd.took = << >> /\ ~rd.ret)
  /\ rd.frames <= 1

\* C19: a call of ReadTFTCommand removes at most one byte, except that the
\* call that reads the first sync byte also reads the byte after it (for
\* which it waits up to 500 ms); it removes nothing and returns false when
\* no byte is available; a call of IdleLoop hands at most one frame to
\* ProcessPanelRequest, and only when ReadTFTCommand returned true.
C19_OneByteOrSyncPair ==
  /\ Len(rd.took) <= 2
  /\ Len(rd.took) = 2 => (rd.step = 0 /\ rd.sync1 /\ rd.took[1] = 90)
  /\ (rd.sync1 /\ ~rd.timeout) => Len(rd.took) = 2
  /\ rd.step # 0 => Len(rd.took) <= 1
  /\ ~rd.avail => (rd.took = << >> /\ ~rd.ret)
  /\ rd.frames <= 1 /\ (rd.frames = 1 <=> rd.ret)

C19_Witness ==
  /\ rd.took = << 90, 165 >> /\ rd.step = 0 /\ tft_receive_steps = 2
  /\ ~rd.ret /\ rx # << >>

\* the reserved key addresses 0x1000..0x1FFF
KeyRange == 4096..8191
\* the frame reported is as long as its length byte says and fits the buffer
WellFormed ==
  /\ Len(frame) >= 3
  /\ Len(frame) = 3 + FrameLength
  /\ FrameLength < DATA_BUF_SIZE
KeyEvent == rd.branch = "key"

\* C20 as stated: for a frame 5A A5 len 83 addr_hi addr_lo value_hi
\* value_lo the engine derives address = addr_hi*256 + addr_lo and value =
\* value_hi*256 + value_lo and raises a key event with that value exactly
\* when the address is a reserved key address.
C20_KeyFromFrame ==
  (Reported /\ WellFormed /\ FrameLength >= 5 /\ frame[4] = 131) =>
    /\ rd.addr = frame[5] * 256 + frame[6]
    /\ KeyEvent <=> (frame[5] * 256 + frame[6]) \in KeyRange
    /\ KeyEvent => (rd.value = frame[7] * 256 + frame[8]
                    /\ key_index = rd.addr)

\* C20: the value is taken from the fifth and sixth payload bytes, after
\* the word count that follows the address: for a frame 5A A5 len 83
\* addr_hi addr_lo count value_hi value_lo the engine derives address =
\* addr_hi*256 + addr_lo and value = value_hi*256 + value_lo and raises a
\* key event with that value exactly when the address is a reserved key
\* address; for any frame with opcode 83 the address and value are those
\* of buffer bytes 1, 2 and 4, 5; a frame with another opcode raises none.
C20_KeyFromCountedFrame ==
  /\ (Reported /\ WellFormed /\ FrameLength >= 6 /\ frame[4] = 131) =>
       /\ rd.addr = frame[5] * 256 + frame[6]
       /\ KeyEvent <=> (frame[5] * 256 + frame[6]) \in KeyRange
       /\ KeyEvent => (rd.value = frame[8] * 256 + frame[9]
                       /\ key_index = rd.addr)
  /\ (Reported /\ data_buf[0] = 131) =>
       /\ rd.addr = data_buf[1] * 256 + data_buf[2]
       /\ KeyEvent <=> rd.addr \in KeyRange
       /\ KeyEvent => (rd.value = data_buf[4] * 256 + data_buf[5]
                       /\ key_index = rd.addr)
  /\ (Reported /\ data_buf[0] # 131) => ~KeyEvent
  /\ ~Reported => ~KeyEvent

C20_Witness ==
  /\ Reported /\ frame = KeyFrameHigh /\ KeyEvent
  /\ rd.value = 259 /\ key_index = 7936 /\ key_value = 0

(***************************************************************************)
(* Properties of the frames written and of page navigation                 *)
(***************************************************************************)
\* all bytes the panel sent have been read
AllRead == wire = << >> /\ rx = << >>
\* the receive buffer holds the payload bs
BufferHolds(bs) == \A i \in 1..Len(bs) : data_buf[i - 1] = bs[i]

\* C21 as stated: the bytes the encoder writes for an address and a value
\* (or a text), fed to the decoder, give a complete frame from which the
\* engine recovers the same address and value.
C21_RoundTrip ==
  \A a \in RoundAddresses, v \in RoundValues :
    (Reported /\ frame = ValueFrame(v, a)) => (rd.addr = a /\ rd.value = v)

\* C21: the bytes written for an address and a value, or for a text of up
\* to 58 bytes, fed to the decoder, give a complete frame whose buffer
\* holds the opcode 82, the address and the value (or the text and FF FF);
\* ProcessPanelRequest takes no address or value from a frame with that
\* opcode and changes nothing.  A text of 59 bytes makes a payload of 64
\* bytes, which the decoder never reports.
C21_RoundTripOfBytes ==
  /\ \A a \in RoundAddresses, v \in RoundValues :
       (Reported /\ frame = ValueFrame(v, a)) =>
         /\ BufferHolds(<< 130, a \div 256, a % 256, v \div 256, v % 256 >>)
         /\ rd.branch = "write" /\ rd.addr = 0 /\ PanelState = rd.pre
  /\ \A a \in RoundAddresses, t \in RoundTexts :
       (Reported /\ frame = TxtFrame(t, a)) =>
         /\ Len(t) <= MaxTxt
         /\ BufferHolds(<< 130, a \div 256, a % 256 >> \o t \o << 255, 255 >>)
         /\ rd.branch = "write" /\ PanelState = rd.pre
  /\ (AllRead /\ Len(frame) >= 3 /\ FrameLength < DATA_BUF_SIZE) =>
       (tft_receive_steps = 0 /\ WellFormed)
  /\ Reported => WellFormed

C21_Witness ==
  /\ Reported /\ frame = ValueFrame(23205, KEY_ADDRESS + 2)
  /\ data_buf[3] = 90 /\ data_buf[4] = 165 /\ rd.branch = "write"

\* C22: ChangePageOfTFT(t) moves the old previous page to
\* previous-previous, the old current page to previous, makes the page
\* resolved for the language the current one, and writes exactly one frame
\* of 10 bytes, the page change, whose last two bytes are the resolved page,
\* high byte first.
C22_ChangePageShiftsAndSends ==
  ev.op = "ChangePageOfTFT" =>
    /\ page_index_last_2 = ev.pre[2]
    /\ page_index_last = ev.pre[1]
    /\ page_index_now = PageOf(language, ev.arg)
    /\ Len(tx) = 1
    /\ tx[1].op = "page"
    /\ Len(Bytes(tx[1])) = 10
    /\ SubSeq(Bytes(tx[1]), 1, 8) = << 90, 165, 7, 130, 0, 132, 90, 1 >>
    /\ Bytes(tx[1])[9] = page_index_now \div 256
    /\ Bytes(tx[1])[10] = page_index_now % 256

C22_Witness ==
  /\ ev.op = "ChangePageOfTFT" /\ ev.arg = PAGE_CHS_HOMING
  /\ language = "ENG" /\ page_index_now = 189
  /\ page_index_last = 324 /\ page_index_last_2 = 121
  /\ Bytes(tx[1]) = << 90, 165, 7, 130, 0, 132, 90, 1, 0, 189 >>

\* the page the specification's table gives
TablePage(lang, t) ==
  IF lang = "CHS" THEN t
  ELSE IF t = 171 THEN 173
  ELSE IF t = 176 THEN 175
  ELSE IF 177 <= t /\ t <= 188 THEN t + 12
  ELSE IF 201 <= t /\ t <= 203 THEN t + 3
  ELSE t + 120

\* C23: the page shown for t is t in Chinese; in English 171 -> 173,
\* 176 -> 175, 177..188 -> t + 12, 201..203 -> t + 3 and t + 120 for every
\* other page; ChangePageOfTFT and FakeChangePageOfTFT resolve alike.
C23_PageTable ==
  ev.op \in {"ChangePageOfTFT", "FakeChangePageOfTFT"} =>
    page_index_now = TablePage(language, ev.arg)

\* the three page fields
Pages == << page_index_now, page_index_last, page_index_last_2 >>
PagesBefore == << ev.pre[1], ev.pre[2], ev.pre[3] >>

\* C24: the three page fields change only inside ChangePageOfTFT and
\* FakeChangePageOfTFT: a call of another operation that does not navigate
\* (HomingStart or HomingComplete while printing from media, PrinterKilled
\* for a fault without a page) leaves the three fields unchanged.
C24_PagesOnlyByNavigation ==
  (ev.op \in {"HomingStart", "HomingComplete", "PrinterKilled"}
     /\ ev.pages = 0) => Pages = PagesBefore

\* the fault page of the Chinese panel for an error and a component, as
\* the table of the specification names them; 0: not in the table
FaultPage(error, component) ==
  IF error \in {HeatingFailed, ThermalRunaway}
  THEN (IF component = Bed THEN 178 ELSE IF component = E1 THEN 180 ELSE 0)
  ELSE IF error \in {ErrMintemp, ErrMaxtemp}
  THEN (IF component = Bed THEN 179 ELSE IF component = E1 THEN 181 ELSE 0)
  ELSE IF error = HomingFailed
  THEN (IF component = << "X" >> THEN 182
        ELSE IF component = << "Y" >> THEN 183
        ELSE IF component = << "Z" >> THEN 184 ELSE 0)
  ELSE 0

\* s begins with one of the texts
Begins(s, texts) ==
  \E t \in texts : Len(s) >= Len(t) /\ \A i \in 1..Len(t) : s[i] = t[i]

\* the fault page for an error and a component that begin with the texts
\* of the table
FaultPageByPrefix(error, component) ==
  IF Begins(error, {HeatingFailed, ThermalRunaway})
  THEN (IF Begins(component, {Bed}) THEN 178
        ELSE IF Begins(component, {E1}) THEN 180 ELSE 0)
  ELSE IF Begins(error, {ErrMintemp, ErrMaxtemp})
  THEN (IF Begins(component, {Bed}) THEN 179
        ELSE IF Begins(component, {E1}) THEN 181 ELSE 0)
  ELSE IF Begins(error, {HomingFailed})
  THEN (IF Begins(component, {<< "X" >>}) THEN 182
        ELSE IF Begins(component, {<< "Y" >>}) THEN 183
        ELSE IF Begins(component, {<< "Z" >>}) THEN 184 ELSE 0)
  ELSE 0

\* PrinterKilled has shown the fault page
ShowsFault(page) ==
  /\ page_index_now = (IF language = "CHS" THEN page ELSE page + 12)
  /\ page_index_last = ev.pre[1]
  /\ page_index_last_2 = ev.pre[2]
  /\ ev.pages = 1

\* C26 as stated: PrinterKilled with "Err: MINTEMP" and "Bed" shows the
\* bed-thermistor page, with "E1" the hotend-thermistor page (and so for
\* the other rows of the table); every combination outside the table
\* changes no page and leaves the page history unchanged.
C26_FaultTable ==
  ev.op = "PrinterKilled" =>
    IF FaultPage(ev.arg[1], ev.arg[2]) # 0
    THEN ShowsFault(FaultPage(ev.arg[1], ev.arg[2]))
    ELSE Pages = PagesBefore /\ ev.pages = 0

\* C26: PrinterKilled shows the page of the table row whose error text
\* the error begins with and whose component text the component begins
\* with ("Err: MINTEMP" and "Bed": bed thermistor; "Err: MINTEMP" and
\* "E1": hotend thermistor); when the error or the component begins with
\* no text of the table, no page changes and the history stays.
C26_FaultTableByPrefix ==
  ev.op = "PrinterKilled" =>
    IF FaultPageByPrefix(ev.arg[1], ev.arg[2]) # 0
    THEN ShowsFault(FaultPageByPrefix(ev.arg[1], ev.arg[2]))
    ELSE Pages = PagesBefore /\ ev.pages = 0

C26_Witness ==
  /\ ev.op = "PrinterKilled"
  /\ ev.arg = << ErrMintemp, << "E", "1", "0" >> >>
  /\ language = "ENG"
  /\ Pages = << 193, 189, 121 >>

\* C25: StatusChange in the probing state that has received exactly
\* GRID_MAX_POINTS_X * GRID_MAX_POINTS_Y "probing point" messages and then
\* receives "ready" makes the printer idle and injects exactly one M500;
\* with one message fewer it does neither.
C25_ProbingDone ==
  (ev.op = "StatusChange" /\ ev.arg = "ready"
     /\ ev.pre[6] = "AC_printer_probing") =>
    /\ ev.points = GRID_MAX_POINTS_X * GRID_MAX_POINTS_Y =>
         (printer_state = "AC_printer_idle" /\ ev.inj = << "M500" >>)
    /\ ev.points = GRID_MAX_POINTS_X * GRID_MAX_POINTS_Y - 1 =>
         (printer_state = "AC_printer_probing" /\ ev.inj = << >>)

\* the overlay of FilamentRunout fires at most once for each call, and
\* the tick in which it fires resets pop_up_index
FiresOnce ==
  /\ obs.fires <= 1
  /\ obs.shown <= 1
  /\ (ev.op = "IdleLoop" /\ ev.pop = 15) =>
       /\ pop_up_index = POP_UP_NONE
       /\ obs.fires = 1
       /\ page_index_now \in {25, 145}
  /\ (ev.op = "IdleLoop" /\ ev.pop # 15) => Pages = ev.mid

\* C27 as stated: FilamentRunout() while the printer is printing and the
\* pin reads other than its baseline pauses the job, sets the pause state
\* to filament_lack and schedules the filament-lack overlay exactly once:
\* the overlay fires in one tick, changes the page once to the
\* filament-lack page, and does not fire again in later ticks.
C27_RunoutWhilePrinting ==
  /\ (ev.op = "FilamentRunout" /\ ev.arg[1]
        /\ ev.pre[6] = "AC_printer_printing") =>
       /\ printer_state = "AC_printer_pausing"
       /\ pause_state = "AC_paused_filament_lack"
       /\ pop_up_index = 15
  /\ FiresOnce

\* C27: FilamentRunout() while a job is printing from media and the pin
\* reads other than its baseline pauses the job (printer state pausing),
\* sets the pause state to filament_lack and schedules the filament-lack
\* overlay; any other call schedules the overlay and leaves the printer
\* and pause state.  The overlay fires in the next tick and in no later
\* one, and changes the page at most once, to the filament-lack page.
C27_RunoutWhilePrintingFromMedia ==
  /\ (ev.op = "FilamentRunout" /\ ev.arg[1] /\ ev.arg[2]) =>
       /\ printer_state = "AC_printer_pausing"
       /\ pause_state = "AC_paused_filament_lack"
       /\ pop_up_index = 15
  /\ (ev.op = "FilamentRunout" /\ ~(ev.arg[1] /\ ev.arg[2])) =>
       /\ printer_state = ev.pre[6]
       /\ pause_state = ev.pre[7]
       /\ pop_up_index = 15
  /\ FiresOnce

C27_Witness ==
  /\ ev.op = "IdleLoop" /\ ev.pop = 15 /\ ev.pages = 1
  /\ printer_state = "AC_printer_pausing"
  /\ pause_state = "AC_paused_filament_lack"
  /\ Pages = << 25, 4, 2 >>
  /\ pop_up_index = POP_UP_NONE

\* C29: pop_up_manager runs once in each tick, fires at most one overlay
\* and resets pop_up_index to 100 after firing; the fault and the
\* filament-lack overlay change the page only if their page is not shown
\* yet, in either language: firing while it is shown leaves the history.
C29_NoRedundantOverlay ==
  (ev.op = "IdleLoop" /\ ev.pop \in {10, 15}) =>
    /\ pop_up_index = POP_UP_NONE
    /\ ev.pages <= 1
    /\ LET page == IF ev.pop = 10 THEN PAGE_ABNORMAL
                   ELSE PAGE_FILAMENT_LACK
       IN  ev.mid[1] = (IF language = "CHS" THEN page ELSE page + 120)
             => Pages = ev.mid

\* the number of commands c in the sequence s
Count(s, c) == Cardinality({ i \in 1..Len(s) : s[i] = c })

\* the tick handled a key that cancels the recovery while the printer was
\* resuming: key 2 of the outage page, key 6 of the file page with a file
\* selected, key 1 of the stop page
CancelKey ==
  /\ ev.op = "IdleLoop"
  /\ ev.pre[6] = "AC_printer_resuming_from_power_outage"
  /\ \/ ev.handler \in {"page171_handle", "page173_handle"} /\ ev.key = 2
     \/ ev.handler = "fun_array" /\ ev.fun = 1 /\ ev.key = 6 /\ ev.arg[2]
     \/ ev.handler = "fun_array" /\ ev.fun = 26 /\ ev.key = 1

\* after a cancel no tick injects M1000 until a recovery is announced
NoResumeAfterCancel ==
  (ev.op = "IdleLoop" /\ ev.cancelled) => Count(ev.inj, "M1000") = 0

\* C28: cancelling the recovery from the panel (cancel key of the
\* outage-recovery page, start of another print, confirmed stop while the
\* printer state is resuming_from_power_outage) sets the printer state to
\* idle and injects exactly one M1000 C; no M1000 is injected afterwards
\* unless a new recovery is announced.
C28_CancelRecovery ==
  /\ CancelKey => /\ printer_state = "AC_printer_idle"
                  /\ Count(ev.inj, "M1000 C") = 1
  /\ NoResumeAfterCancel

\* the cancel key of the outage page and the start of another print do
\* cancel, and so does the stop page when no job prints from media
C28_CancelsReached ==
  /\ CancelKey
  /\ printer_state = "AC_printer_idle"
  /\ ev.inj = << "M1000 C" >>

\* the page arguments of all calls of ChangePageOfTFT in the engine
Targets ==
  { 11, 50, PAGE_MAIN, PAGE_FILE, PAGE_STATUS1, PAGE_STATUS2, PAGE_ADJUST,
    PAGE_TOOL, 8, 9, 10, PAGE_SYSTEM_CHS_AUDIO_ON, 13, 14, PAGE_PREPARE,
    PAGE_PreLEVEL, PAGE_LEVEL_ADVANCE, PAGE_PREHEAT, PAGE_FILAMENT, 20,
    PAGE_ABNORMAL, PAGE_PRINT_FINISH, 23, PAGE_FILAMENT_LACK,
    PAGE_STOP_CONF, PAGE_NO_SD, 30, PAGE_WAIT_PAUSE, PAGE_LEVEL_ENSURE,
    PAGE_LEVELING, 115, PAGE_SYSTEM_CHS_AUDIO_OFF, PAGE_OUTAGE_RECOVERY,
    PAGE_CHS_PROBE_PREHEATING, PAGE_CHS_HOMING } \cup
  (PAGE_CHS_ABNORMAL_BED_HEATER..PAGE_CHS_ABNORMAL_Z_ENDSTOP) \cup
  { PAGE_CHS_ABNORMAL_LEVELING_SENSOR } \cup
  (PAGE_CHS_PROBE_PRECHECK..PAGE_CHS_PROBE_PRECHECK_FAILED)

\* the keys the handler h has a case for
BoundKeys(h) ==
  CASE h.name \in {"page171_handle", "page173_handle"} -> {1, 2}
    [] h.name = "page199_to_200_handle" -> {1}
    [] h.name = "fun_array" /\ h.fun \in {0, 2, 3, 14} -> 1..4
    [] h.name = "fun_array" /\ h.fun = 4 -> 1..7
    [] h.name = "fun_array" /\ h.fun \in {19, 20, 25, 27} -> {1}
    [] h.name = "fun_array" /\ h.fun \in {21, 22, 23, 28} -> {1, 2}
    [] h.name = "fun_array" /\ h.fun = 1 -> 1..11
    [] h.name = "fun_array" /\ h.fun = 15 -> 1..3
    [] h.name = "fun_array" /\ h.fun = 24 -> {1}
    [] h.name = "fun_array" /\ h.fun \in {26, 32} -> {1, 2}
    [] OTHER -> {}

\* the tick found no handler for the page, or a key the page does not bind
Undispatched ==
  /\ ev.op = "IdleLoop"
  /\ \/ ev.handler = "none"
     \/ /\ ev.key # 0
        /\ ev.key \notin BoundKeys([name |-> ev.handler, fun |-> ev.fun])

\* an index of fun_array within the table
InBounds(h) == h.name = "fun_array" => h.fun \in 0..(FUN_ARRAY_SIZE - 1)

\* the dispatcher indexes fun_array within its bounds: for the page shown,
\* for the page of the last tick, and for every page a call of
\* ChangePageOfTFT with an argument of Targets produces in either language
IndexedInBounds ==
  /\ InBounds(HandlerOf(language, page_index_now))
  /\ ev.op = "IdleLoop" => InBounds([name |-> ev.handler, fun |-> ev.fun])
  /\ \A lang \in {"CHS", "ENG"}, t \in Targets :
       InBounds(HandlerOf(lang, PageOf(lang, t)))

FaultPages == 178..188 \cup 190..200
EndstopPages == 182..184 \cup 194..196

\* the page the return key of the fault page is to show, from the page
\* fields before the tick
ReturnPage(now, last, last_2) ==
  IF now \in EndstopPages
  THEN IF last_2 \in {PageOf(language, PAGE_STATUS1),
                      PageOf(language, PAGE_STATUS2)}
          \/ last = PageOf(language, PAGE_PRINT_FINISH)
       THEN PageOf(language, PAGE_MAIN)
       ELSE last_2
  ELSE last

\* C31: on a fault page the return key navigates back to the page that was
\* active before the page that triggered the fault (the page before the
\* previous one for the endstop faults, or the main page when that was a
\* print-status page; the previous page for the other fault pages), in
\* both languages.
C31_FaultReturn ==
  (ev.op = "IdleLoop" /\ ev.key = 1 /\ ev.pre[1] \in FaultPages) =>
    page_index_now = ReturnPage(ev.pre[1], ev.pre[2], ev.pre[3])

\* C32: in every reachable state, whenever the pause state is not idle
\* (filament_lack, heater_timed_out or purging_filament), the printer state
\* is pausing, paused or resuming_from_power_outage.
C32_PauseStateSubordinate ==
  pause_state # "AC_paused_idle" =>
    printer_state \in {"AC_printer_pausing", "AC_printer_paused",
                       "AC_printer_resuming_from_power_outage"}

\* C33: for every input byte stream and every length byte, the decoder
\* never writes the receive buffer of 64 bytes at an index outside 0..63:
\* the index of each write (rd.index, -1 when the call wrote nothing) is
\* within the buffer.
C33_WritesWithinBuffer ==
  /\ rd.index \in (0 - 1)..(DATA_BUF_SIZE - 1)
  /\ data_index \in 0..(DATA_BUF_SIZE - 1)
  /\ DOMAIN data_buf = 0..(DATA_BUF_SIZE - 1)

\* a payload longer than the buffer was read: the last index the decoder
\* writes was written, and the next byte was dropped
C33_Witness ==
  /\ rd.overflow
  /\ rd.index = 0 - 1
  /\ Len(frame) = 3 + DATA_INDEX_LIMIT + 1
  /\ frame[3] = DATA_BUF_SIZE + 1
  /\ data_index = 0

\* a tick started a probing session
SessionStarts ==
  /\ ev.op = "IdleLoop"
  /\ ev.pre[6] # "AC_printer_probing"
  /\ printer_state = "AC_printer_probing"

\* C34: the probe counter is zero whenever a probing session starts: after
\* a session that ended with "probing failed" (or was left with fewer
\* points counted than the grid has), a later session that delivers
\* exactly as many "probing point" messages as the grid has points,
\* followed by "ready", still goes to idle and saves the settings.
C34_ProbingStartsAtZero ==
  /\ SessionStarts => probe_cnt = 0
  /\ (/\ ev.op = "StatusChange" /\ ev.arg = "ready"
      /\ ev.pre[6] = "AC_printer_probing"
      /\ ev.points = GRID_MAX_POINTS_X * GRID_MAX_POINTS_Y) =>
       /\ printer_state = "AC_printer_idle"
       /\ "M500" \in Range(ev.inj)

\* the indices of fun_array of the confirmation pages 20, 21, 23, 24, 26
\* and 28
ConfirmationFuns == {19, 20, 22, 23, 25, 27}

\* C35: the return key on a confirmation page (page 20, 21, 23, 24, 26 or
\* 28) that was reached by a page change from page P sets the current page
\* back to P, in Chinese and in English.
C35_ConfirmReturns ==
  (/\ ev.op = "IdleLoop" /\ ev.handler = "fun_array"
   /\ ev.fun \in ConfirmationFuns /\ ev.key = 1) =>
    page_index_now = ev.pre[2]

\* C37: after a print has ended, the printer state returns to idle: after a
\* timer-stopped event (normal finish, or stop after the media was removed)
\* and the operator's acknowledgement of the finish page or the no-media
\* page, the printer state is idle without a new print having started.
C37_IdleAfterFinish ==
  (/\ ev.op = "IdleLoop" /\ ev.handler = "fun_array"
   /\ ev.fun \in {21, 28} /\ ev.key = 1
   /\ ev.pre[6] \in {"AC_printer_stopping",
                     "AC_printer_stopping_from_media_remove"}) =>
    printer_state = "AC_printer_idle"

\* C36: a well-formed frame (5A A5, length, payload within capacity) is
\* delivered as a complete frame whatever bytes precede it while the decoder
\* waits for the first sync byte, a stray 0x5A immediately before the
\* frame's own sync pair included: the call that reads the last byte of the
\* stream reports the frame.
C36_Resynchronizes ==
  (rx = << >> /\ wire = << >> /\ rd.took # << >>) =>
    (rd.ret /\ frame = KeyFrame)

\* C38: once FilamentRunout has set the pause state to filament_lack, every
\* status text and every confirmation request (print paused, nozzle parked,
\* heater timed out, reheat finished, filament purging) leaves it
\* filament_lack.
C38_FilamentLackKept ==
  [][(/\ pause_state = "AC_paused_filament_lack"
      /\ ev'.op \in {"StatusChange", "ConfirmationRequest"}) =>
       pause_state' = "AC_paused_filament_lack"]_vars

\* the buffer a frame fills when no frame came before it
BufferOf(f) ==
  [i \in 0..(DATA_BUF_SIZE - 1) |-> IF i < f[3] THEN f[4 + i] ELSE 0]

\* C39: the address and the key value derived from an inbound frame depend
\* on the bytes of that frame only: after any earlier frames, a frame (one
\* with fewer than six payload bytes included) gives the address and the
\* key value it gives when it is the first frame, or no key event as then.
C39_FrameAlone ==
  (Reported /\ WellFormed /\ FrameLength >= 3 /\ frame[4] = OP_READ) =>
    /\ rd.addr = ControlIndex(BufferOf(frame))
    /\ KeyEvent <=> IsKey(ControlIndex(BufferOf(frame)))
    /\ KeyEvent => rd.value = ControlValue(BufferOf(frame))

\* C40: HomingStart followed by HomingComplete, with no print from media in
\* progress and nothing else in between, restores page_index_now to the
\* value it had before HomingStart, in Chinese and in English and for
\* every page, the English exception pages included.
C40_HomingRoundTrip ==
  [][(/\ ev.op = "HomingStart" /\ ev.arg = FALSE
      /\ ev'.op = "HomingComplete" /\ ev'.arg = FALSE) =>
       page_index_now' = ev.pre[1]]_vars

\* homing has started on the English page of the outage recovery and has
\* completed
C40_Witness ==
  /\ ev.op = "HomingComplete" /\ ev.arg = FALSE
  /\ language = "ENG"
  /\ ev.pre[1] = PAGE_ENG_HOMING
  /\ ev.pre[2] = PAGE_ENG_OUTAGE_RECOVERY
  /\ page_index_now = PAGE_ENG_OUTAGE_RECOVERY

====
